---- MODULE Spec2Model ----
(***************************************************************************)
(* B-ASIC signal-flow-graph simulator: compiler (compile.cpp), stack       *)
(* interpreter (run.cpp) and simulation driver (simulation.cpp).           *)
(*                                                                         *)
(* A number is std::complex<double>.  The model keeps it exact as a        *)
(* Gaussian rational (re + im*i)/den in lowest terms; den = 0 stands for a *)
(* non-finite value (division by zero).  Strings are kept as sequences of  *)
(* tokens (graph ids, ".", decimal numerals), so that concatenation,       *)
(* size() and substr() are sequence operations.                            *)
(***************************************************************************)
EXTENDS Integers, Sequences, FiniteSets, TLC

\* std::optional / Python None: the empty sequence is "no value", <<x>> holds x.
None == <<>>
Some(x) == <<x>>

----------------------------------------------------------------------------
(* Bounds of the model.                                                    *)

\* Largest number of iterations a driver may execute.
MaxIter == 3
\* Largest per-edge width / bits_override used by the catalogue and driver.
MaxBits == 3
\* Number of calls the model makes on one simulation after constructing it.
MaxCalls == 2

----------------------------------------------------------------------------
(* number = std::complex<double>                                           *)

AbsInt(x) == IF x < 0 THEN -x ELSE x

RECURSIVE GCD(_, _)
GCD(a, b) == IF b = 0 THEN a ELSE GCD(b, a % b)

\* A value the exact model cannot hold (non-finite, or irrational): den = 0.
NaN == [re |-> 0, im |-> 0, den |-> 0]

Norm(x) ==
    IF x.den = 0 THEN NaN
    ELSE LET s == IF x.den < 0 THEN -1 ELSE 1
             g == GCD(GCD(AbsInt(x.re), AbsInt(x.im)), AbsInt(x.den))
         IN [re |-> (s * x.re) \div g, im |-> (s * x.im) \div g, den |-> (s * x.den) \div g]

Num(r) == [re |-> r, im |-> 0, den |-> 1]
Cplx(r, i) == [re |-> r, im |-> i, den |-> 1]

IsFinite(x) == x.den # 0

NumAdd(a, b) == Norm([re |-> a.re * b.den + b.re * a.den, im |-> a.im * b.den + b.im * a.den, den |-> a.den * b.den])
NumSub(a, b) == Norm([re |-> a.re * b.den - b.re * a.den, im |-> a.im * b.den - b.im * a.den, den |-> a.den * b.den])
NumMul(a, b) == Norm([re |-> a.re * b.re - a.im * b.im, im |-> a.re * b.im + a.im * b.re, den |-> a.den * b.den])
NumDiv(a, b) ==
    Norm([re |-> (a.re * b.re + a.im * b.im) * b.den,
          im |-> (a.im * b.re - a.re * b.im) * b.den,
          den |-> a.den * (b.re * b.re + b.im * b.im)])
NumConj(a) == [a EXCEPT !.im = -a.im]

\* value.real() < other.real() on finite reals
RealLess(a, b) == a.re * b.den < b.re * a.den
NumMin(a, b) == IF RealLess(b, a) THEN [b EXCEPT !.im = 0] ELSE [a EXCEPT !.im = 0]
NumMax(a, b) == IF RealLess(a, b) THEN [b EXCEPT !.im = 0] ELSE [a EXCEPT !.im = 0]

\* static_cast<std::int64_t>(double): truncation toward zero
ToInt64(x) == IF x.re >= 0 THEN x.re \div x.den ELSE -((-x.re) \div x.den)

\* two's-complement x & m for a mask m >= 0, or m = -1 (all bits set)
RECURSIVE BitAnd(_, _)
BitAnd(x, m) ==
    IF m = 0 THEN 0
    ELSE IF m = -1 THEN x
    ELSE (x % 2) * (m % 2) + 2 * BitAnd(x \div 2, m \div 2)

RECURSIVE Pow2(_)
Pow2(n) == IF n = 0 THEN 1 ELSE 2 * Pow2(n - 1)


\* (std::int64_t{1} << bits) - 1
BitMask(bits) == Pow2(bits) - 1

\* std::int64_t{1} << 64 shifts by the width of the type, which is undefined: the shift
\* instructions of x86-64 and AArch64 take the count modulo 64, which gives 1 << 0; a shift
\* that the compiler folds, or that is done in two halves, gives 0.
ShiftOutcomes == {"count_mod_64", "zero"}

\* (std::int64_t{1} << bits) - 1 for bits <= 64 on a build that shifts as shift says, as the
\* nonnegative value of the mask or as -1 for the mask with all 64 bits set
shifted_mask(bits, shift) ==
    IF bits < 64 THEN BitMask(bits) ELSE IF shift = "count_mod_64" THEN 0 ELSE -1

----------------------------------------------------------------------------
(* The source graph (the Python objects the compiler reads through         *)
(* pybind11).  A graph is a function from node names to nodes; the node    *)
(* "sfg" is the top-level SFG handed to the simulation constructor.        *)

Sig(op, idx, bits) == [source |-> [operation |-> op, index |-> idx], bits |-> bits]

Node(type, gid, ins, outc) ==
    [type_name |-> type, graph_id |-> gid, inputs |-> ins, input_count |-> Len(ins),
     output_count |-> outc, value |-> Num(0), initial_value |-> Num(0),
     input_operations |-> <<>>, output_operations |-> <<>>]

In(gid)            == Node("in", gid, <<>>, 1)
Out(gid, s)        == Node("out", gid, <<s>>, 0)
Const(gid, v)      == [Node("c", gid, <<>>, 1) EXCEPT !.value = v]
Bin(type, gid, a, b) == Node(type, gid, <<a, b>>, 1)
Un(type, gid, a)   == Node(type, gid, <<a>>, 1)
CMul(gid, v, a)    == [Node("cmul", gid, <<a>>, 1) EXCEPT !.value = v]
Bfly(gid, a, b)    == Node("bfly", gid, <<a, b>>, 2)
Delay(gid, init, a) == [Node("t", gid, <<a>>, 1) EXCEPT !.initial_value = init]
SFG(gid, ins, inops, outops) ==
    [Node("sfg", gid, ins, Len(outops)) EXCEPT !.input_operations = inops, !.output_operations = outops,
                                               !.input_count = Len(inops)]

\* in0 + in1 -> out0
G_add ==
    [sfg |-> SFG("", <<>>, <<"in0", "in1">>, <<"out0">>),
     in0 |-> In("in0"), in1 |-> In("in1"),
     add1 |-> Bin("add", "add1", Sig("in0", 0, None), Sig("in1", 0, None)),
     out0 |-> Out("out0", Sig("add1", 0, None))]

\* in0 - in1 -> out0
G_sub ==
    [sfg |-> SFG("", <<>>, <<"in0", "in1">>, <<"out0">>),
     in0 |-> In("in0"), in1 |-> In("in1"),
     sub1 |-> Bin("sub", "sub1", Sig("in0", 0, None), Sig("in1", 0, None)),
     out0 |-> Out("out0", Sig("sub1", 0, None))]

\* 6 / 3 -> out0
G_div ==
    [sfg |-> SFG("", <<>>, <<>>, <<"out0">>),
     c1 |-> Const("c1", Num(6)), c2 |-> Const("c2", Num(3)),
     div1 |-> Bin("div", "div1", Sig("c1", 0, None), Sig("c2", 0, None)),
     out0 |-> Out("out0", Sig("div1", 0, None))]

\* conj(in0 --bits--> ) -> out0 : one edge that carries a bits attribute
G_quant(bits) ==
    [sfg |-> SFG("", <<>>, <<"in0">>, <<"out0">>),
     in0 |-> In("in0"),
     conj1 |-> Un("conj", "conj1", Sig("in0", 0, bits)),
     out0 |-> Out("out0", Sig("conj1", 0, None))]

\* in0 -> t1(0) -> out0
G_delay ==
    [sfg |-> SFG("", <<>>, <<"in0">>, <<"out0">>),
     in0 |-> In("in0"),
     t1 |-> Delay("t1", Num(0), Sig("in0", 0, None)),
     out0 |-> Out("out0", Sig("t1", 0, None))]

\* in0 -> t2(1) -> t1(0) -> out0 : two delays in series
G_series ==
    [sfg |-> SFG("", <<>>, <<"in0">>, <<"out0">>),
     in0 |-> In("in0"),
     t2 |-> Delay("t2", Num(1), Sig("in0", 0, None)),
     t1 |-> Delay("t1", Num(0), Sig("t2", 0, None)),
     out0 |-> Out("out0", Sig("t1", 0, None))]

\* c1(1) + t1 -> add1 -> out0, add1 -> t1(9) : a counter that needs no input
G_counter ==
    [sfg |-> SFG("", <<>>, <<>>, <<"out0">>),
     c1 |-> Const("c1", Num(1)),
     add1 |-> Bin("add", "add1", Sig("c1", 0, None), Sig("t1", 0, None)),
     t1 |-> Delay("t1", Num(9), Sig("add1", 0, None)),
     out0 |-> Out("out0", Sig("add1", 0, None))]

\* three delays at the outputs, the first fed by a fourth delay behind an adder
G_fanout ==
    [sfg |-> SFG("", <<>>, <<"in0">>, <<"out0", "out1", "out2">>),
     in0 |-> In("in0"),
     t4 |-> Delay("t4", Num(2), Sig("in0", 0, None)),
     add1 |-> Bin("add", "add1", Sig("t4", 0, None), Sig("in0", 0, None)),
     t1 |-> Delay("t1", Num(0), Sig("add1", 0, None)),
     t2 |-> Delay("t2", Num(0), Sig("in0", 0, None)),
     t3 |-> Delay("t3", Num(0), Sig("in0", 0, None)),
     out0 |-> Out("out0", Sig("t1", 0, None)),
     out1 |-> Out("out1", Sig("t2", 0, None)),
     out2 |-> Out("out2", Sig("t3", 0, None))]

\* add1 = in0 + add1 : direct feedback without a delay
G_loop ==
    [sfg |-> SFG("", <<>>, <<"in0">>, <<"out0">>),
     in0 |-> In("in0"),
     add1 |-> Bin("add", "add1", Sig("in0", 0, None), Sig("add1", 0, None)),
     out0 |-> Out("out0", Sig("add1", 0, None))]

\* out0 <- t1 <- t2 <- add1, add1 = add1 + in0 : direct feedback behind two delays
G_hidden ==
    [sfg |-> SFG("", <<>>, <<"in0">>, <<"out0">>),
     in0 |-> In("in0"),
     add1 |-> Bin("add", "add1", Sig("add1", 0, None), Sig("in0", 0, None)),
     t2 |-> Delay("t2", Num(0), Sig("add1", 0, None)),
     t1 |-> Delay("t1", Num(0), Sig("t2", 0, None)),
     out0 |-> Out("out0", Sig("t1", 0, None))]

\* out0 <- t1 <- add1, add1 = add1 + in0 : direct feedback behind one delay
G_loopdelay ==
    [sfg |-> SFG("", <<>>, <<"in0">>, <<"out0">>),
     in0 |-> In("in0"),
     add1 |-> Bin("add", "add1", Sig("add1", 0, None), Sig("in0", 0, None)),
     t1 |-> Delay("t1", Num(0), Sig("add1", 0, None)),
     out0 |-> Out("out0", Sig("t1", 0, None))]

\* in0 -> t1(0) -> t2(0), out0 <- t1, out1 <- t2 : a shift register with both taps as outputs
G_shift ==
    [sfg |-> SFG("", <<>>, <<"in0">>, <<"out0", "out1">>),
     in0 |-> In("in0"),
     t1 |-> Delay("t1", Num(0), Sig("in0", 0, None)),
     t2 |-> Delay("t2", Num(0), Sig("t1", 0, None)),
     out0 |-> Out("out0", Sig("t1", 0, None)),
     out1 |-> Out("out1", Sig("t2", 0, None))]

\* bfly1(3, 4) -> out0, out1
G_bfly ==
    [sfg |-> SFG("", <<>>, <<>>, <<"out0", "out1">>),
     c1 |-> Const("c1", Num(3)), c2 |-> Const("c2", Num(4)),
     bfly1 |-> Bfly("bfly1", Sig("c1", 0, None), Sig("c2", 0, None)),
     out0 |-> Out("out0", Sig("bfly1", 0, None)),
     out1 |-> Out("out1", Sig("bfly1", 1, None))]

\* 5 + 4 -> out0
G_const ==
    [sfg |-> SFG("", <<>>, <<>>, <<"out0">>),
     c1 |-> Const("c1", Num(5)), c2 |-> Const("c2", Num(4)),
     add1 |-> Bin("add", "add1", Sig("c1", 0, None), Sig("c2", 0, None)),
     out0 |-> Out("out0", Sig("add1", 0, None))]

\* min(in0, 4) -> out0
G_min ==
    [sfg |-> SFG("", <<>>, <<"in0">>, <<"out0">>),
     in0 |-> In("in0"), c1 |-> Const("c1", Num(4)),
     min1 |-> Bin("min", "min1", Sig("in0", 0, None), Sig("c1", 0, None)),
     out0 |-> Out("out0", Sig("min1", 0, None))]

\* max(4, in0) -> out0
G_max ==
    [sfg |-> SFG("", <<>>, <<"in0">>, <<"out0">>),
     in0 |-> In("in0"), c1 |-> Const("c1", Num(4)),
     max1 |-> Bin("max", "max1", Sig("c1", 0, None), Sig("in0", 0, None)),
     out0 |-> Out("out0", Sig("max1", 0, None))]

\* out0 <- t1 <- t3 <- c2(1) at the top level, and out1 <- sfg1, a nested SFG without inputs
\* that holds out0 <- t2 <- c3(2): the inner output has the graph_id of an outer one
G_nested ==
    [sfg |-> SFG("", <<>>, <<>>, <<"out0", "out1">>),
     c2 |-> Const("c2", Num(1)),
     t3 |-> Delay("t3", Num(0), Sig("c2", 0, None)),
     t1 |-> Delay("t1", Num(0), Sig("t3", 0, None)),
     sfg1 |-> SFG("sfg1", <<>>, <<>>, <<"sfg1_out0">>),
     sfg1_c2 |-> Const("c3", Num(2)),
     sfg1_t2 |-> Delay("t2", Num(0), Sig("sfg1_c2", 0, None)),
     sfg1_out0 |-> Out("out0", Sig("sfg1_t2", 0, None)),
     out0 |-> Out("out0", Sig("t1", 0, None)),
     out1 |-> Out("out1", Sig("sfg1", 0, None))]

\* A custom operation (a type_name the compiler has no instruction for) with two inputs
\* and two outputs, on the constants 3 and 4: out0 <- sym2p1.0, out1 <- sym2p1.1
G_custom ==
    [sfg |-> SFG("", <<>>, <<>>, <<"out0", "out1">>),
     c1 |-> Const("c1", Num(3)), c2 |-> Const("c2", Num(4)),
     sym2p1 |-> Node("sym2p", "sym2p1", <<Sig("c1", 0, None), Sig("c2", 0, None)>>, 2),
     out0 |-> Out("out0", Sig("sym2p1", 0, None)),
     out1 |-> Out("out1", Sig("sym2p1", 1, None))]

\* Two delays on constants: out0 <- t1 <- c1(5), and out1 <- t2 <- min(c2, c3) with the
\* complex constant c2 = 2 + i, so that the input of t2 fails after t1 was updated
G_partial ==
    [sfg |-> SFG("", <<>>, <<>>, <<"out0", "out1">>),
     c1 |-> Const("c1", Num(5)), c2 |-> Const("c2", Cplx(2, 1)), c3 |-> Const("c3", Num(1)),
     t1 |-> Delay("t1", Num(0), Sig("c1", 0, None)),
     min1 |-> Bin("min", "min1", Sig("c2", 0, None), Sig("c3", 0, None)),
     t2 |-> Delay("t2", Num(0), Sig("min1", 0, None)),
     out0 |-> Out("out0", Sig("t1", 0, None)),
     out1 |-> Out("out1", Sig("t2", 0, None))]

\* out0 <- t1 <- t3 <- c2(1) and out1 <- t2 <- sfg1.0, where the nested sfg1 has the input
\* in0 <- c3(2) and the output out0 <- in0: no input at the top level, and t2 is the second
\* delay of the queue
G_relocated ==
    [sfg |-> SFG("", <<>>, <<>>, <<"out0", "out1">>),
     c2 |-> Const("c2", Num(1)), c3 |-> Const("c3", Num(2)),
     t3 |-> Delay("t3", Num(0), Sig("c2", 0, None)),
     t1 |-> Delay("t1", Num(0), Sig("t3", 0, None)),
     sfg1 |-> SFG("sfg1", <<Sig("c3", 0, None)>>, <<"sfg1_in0">>, <<"sfg1_out0">>),
     sfg1_in0 |-> In("in0"),
     sfg1_out0 |-> Out("out0", Sig("sfg1_in0", 0, None)),
     t2 |-> Delay("t2", Num(0), Sig("sfg1", 0, None)),
     out0 |-> Out("out0", Sig("t1", 0, None)),
     out1 |-> Out("out1", Sig("t2", 0, None))]

\* out0 <- add1 = c1 + c1 with c1 = 7, where the edge into the first input of add1 has
\* 2 bits and the edge into the second has none: one output with two consumers
G_shared ==
    [sfg |-> SFG("", <<>>, <<>>, <<"out0">>),
     c1 |-> Const("c1", Num(7)),
     add1 |-> Bin("add", "add1", Sig("c1", 0, Some(2)), Sig("c1", 0, None)),
     out0 |-> Out("out0", Sig("add1", 0, None))]

\* out0 <- sfg1.0, where sfg1 has the input in0 <- c1(6) and holds c3(2), add1 = in0 + c3
\* and the nested sfg2, whose input in0 <- add1 is its output: sfg1.out0 <- sfg2.0
G_deep ==
    [sfg |-> SFG("", <<>>, <<>>, <<"out0">>),
     c1 |-> Const("c1", Num(6)),
     sfg1 |-> SFG("sfg1", <<Sig("c1", 0, None)>>, <<"sfg1_in0">>, <<"sfg1_out0">>),
     sfg1_in0 |-> In("in0"),
     sfg1_c3 |-> Const("c3", Num(2)),
     sfg1_add1 |-> Bin("add", "add1", Sig("sfg1_in0", 0, None), Sig("sfg1_c3", 0, None)),
     sfg2 |-> SFG("sfg2", <<Sig("sfg1_add1", 0, None)>>, <<"sfg2_in0">>, <<"sfg2_out0">>),
     sfg2_in0 |-> In("in0"),
     sfg2_out0 |-> Out("out0", Sig("sfg2_in0", 0, None)),
     sfg1_out0 |-> Out("out0", Sig("sfg2", 0, None)),
     out0 |-> Out("out0", Sig("sfg1", 0, None))]

\* The largest width the compiler and the interpreter accept
FullBits == 64

\* out0 <- c1 = 5 over an edge of FullBits bits
G_full ==
    [sfg |-> SFG("", <<>>, <<>>, <<"out0">>),
     c1 |-> Const("c1", Num(5)),
     out0 |-> Out("out0", Sig("c1", 0, Some(FullBits)))]

\* A width beyond the 64 bits of the mask (bits_override is a std::uint8_t)
WideBits == 65

\* Widths an edge of the catalogue may carry.
EdgeBits == {None} \cup {Some(b) : b \in 0 .. MaxBits} \cup {Some(WideBits)}

GraphNames == {"add", "sub", "div", "delay", "series", "counter", "fanout", "loop", "hidden",
               "loopdelay", "shift", "bfly", "const", "min", "max", "nested", "custom",
               "partial", "relocated", "shared", "full",
               "deep"}

\* The catalogue: every plain graph, and G_quant once per width.
Catalogue == [name : GraphNames, bits : {None}] \cup [name : {"quant"}, bits : EdgeBits]

GraphOf(entry) ==
    CASE entry.name = "add" -> G_add
      [] entry.name = "sub" -> G_sub
      [] entry.name = "div" -> G_div
      [] entry.name = "quant" -> G_quant(entry.bits)
      [] entry.name = "delay" -> G_delay
      [] entry.name = "series" -> G_series
      [] entry.name = "counter" -> G_counter
      [] entry.name = "fanout" -> G_fanout
      [] entry.name = "loop" -> G_loop
      [] entry.name = "hidden" -> G_hidden
      [] entry.name = "loopdelay" -> G_loopdelay
      [] entry.name = "shift" -> G_shift
      [] entry.name = "bfly" -> G_bfly
      [] entry.name = "const" -> G_const
      [] entry.name = "min" -> G_min
      [] entry.name = "max" -> G_max
      [] entry.name = "nested" -> G_nested
      [] entry.name = "custom" -> G_custom
      [] entry.name = "partial" -> G_partial
      [] entry.name = "relocated" -> G_relocated
      [] entry.name = "shared" -> G_shared
      [] entry.name = "full" -> G_full
      [] entry.name = "deep" -> G_deep

----------------------------------------------------------------------------
(* compile.cpp : class compiler.  The compiler object, its simulation_code *)
(* and the deferred-delay queue are threaded through as one record cs;     *)
(* cs.status # "ok" is an exception in flight, which every later step      *)
(* leaves untouched.                                                       *)

\* std::numeric_limits<result_index_type>::max()
no_result_index == 65535

\* result_key helpers on token sequences
Tok(graph_id) == IF graph_id = "" THEN <<>> ELSE <<graph_id>>

key_base(node, prefix) ==
    IF prefix = <<>> THEN Tok(node.graph_id) ELSE prefix \o <<".">> \o Tok(node.graph_id)

key_of_output(node, output_index, prefix) ==
    LET base == key_base(node, prefix) IN
    IF base = <<>> THEN <<ToString(output_index)>>
    ELSE IF node.output_count = 1 THEN base
    ELSE base \o <<".", ToString(output_index)>>

Instr(type, result_index) ==
    [type |-> type, result_index |-> result_index, index |-> 0, bit_mask |-> 0, value |-> Num(0)]

\* std::vector growth of the deferred-delay queue: libstdc++/libc++ double, MSVC grows by half.
GrowthPolicies == {"x2", "x1_5"}
\* What a read through an invalidated iterator or reference does: the freed block still
\* holds the moved-from elements (trivial members intact, string and vector empty), or the
\* access faults.
DanglingOutcomes == {"moved_from", "fault"}

GrowCapacity(capacity, growth) ==
    IF capacity = 0 THEN 1
    ELSE IF growth = "x2" THEN 2 * capacity
    ELSE IF capacity + capacity \div 2 > capacity THEN capacity + capacity \div 2 ELSE capacity + 1

initialize_code(g, growth, dangling, shift) ==
    [status |-> "ok", g |-> g, growth |-> growth, dangling |-> dangling, shift |-> shift,
     instructions |-> <<>>, custom_operations |-> <<>>, custom_sources |-> <<>>,
     delays |-> <<>>, result_keys |-> <<>>,
     input_count |-> g["sfg"].input_count, output_count |-> g["sfg"].output_count,
     required_stack_size |-> 0,
     m_incomplete_outputs |-> {}, m_added_results |-> [p \in {} |-> 0],
     m_added_custom_operations |-> [p \in {} |-> 0], m_stack_depth |-> 0,
     deferred_delays |-> <<>>, capacity |-> 0, iterating |-> FALSE, invalidated |-> FALSE]

Throw(cs, error) == IF cs.status = "ok" THEN [cs EXCEPT !.status = error] ELSE cs

\* add_instruction without its stack bookkeeping checks: no underflow test, and
\* required_stack_size is left alone
add_instruction_untracked(cs, instruction, stack_diff) ==
    IF cs.status # "ok" THEN cs
    ELSE LET depth == cs.m_stack_depth + stack_diff IN
         [cs EXCEPT !.m_stack_depth = depth,
                    !.instructions = Append(@, instruction)]

\* compiler::add_instruction
add_instruction(cs, instruction, stack_diff) ==
    IF cs.status # "ok" THEN cs
    ELSE LET depth == cs.m_stack_depth + stack_diff IN
         IF depth < 0 THEN [cs EXCEPT !.m_stack_depth = depth, !.status = "IoCountMismatch"]
         ELSE [cs EXCEPT !.m_stack_depth = depth,
                         !.required_stack_size = IF depth > @ THEN depth ELSE @,
                         !.instructions = Append(@, instruction)]

\* deferred_delays.emplace_back(...): a full vector reallocates, which invalidates the
\* iterators and references of a range-for that is running over it.
emplace_deferred(cs, entry) ==
    LET full == Len(cs.deferred_delays) = cs.capacity IN
    [cs EXCEPT !.deferred_delays = Append(@, entry),
               !.capacity = IF full THEN GrowCapacity(@, cs.growth) ELSE @,
               !.invalidated = @ \/ (full /\ cs.iterating)]

\* begin_operation_output without the test for an output that depends on its own value
begin_operation_output_unguarded(cs, op, output_index, prefix) ==
    LET pointer == <<op, output_index>>
        node == cs.g[op]
    IN IF cs.status # "ok" THEN [cs |-> cs, result_index |-> None]
       ELSE IF pointer \notin DOMAIN cs.m_added_results
            THEN IF Len(cs.result_keys) >= no_result_index
                 THEN [cs |-> Throw(cs, "TooManyResults"), result_index |-> None]
                 ELSE [cs |-> [cs EXCEPT !.m_added_results = @ @@ (pointer :> Len(cs.result_keys)),
                                         !.result_keys = Append(@, key_of_output(node, output_index, prefix)),
                                         !.m_incomplete_outputs = @ \cup {pointer}],
                       result_index |-> Some(Len(cs.result_keys))]
       ELSE LET r == cs.m_added_results[pointer] IN
            [cs |-> add_instruction(cs, [Instr("push_result", r) EXCEPT !.index = r], 1),
             result_index |-> None]

\* Result: [cs, result_index] with result_index an optional.
begin_operation_output(cs, op, output_index, prefix) ==
    LET pointer == <<op, output_index>>
        node == cs.g[op]
    IN IF cs.status # "ok" THEN [cs |-> cs, result_index |-> None]
       ELSE IF pointer \in cs.m_incomplete_outputs /\ node.type_name # "t"
            THEN [cs |-> Throw(cs, "DirectFeedbackLoop"), result_index |-> None]
       ELSE IF pointer \notin DOMAIN cs.m_added_results
            THEN IF Len(cs.result_keys) >= no_result_index
                 THEN [cs |-> Throw(cs, "TooManyResults"), result_index |-> None]
                 ELSE [cs |-> [cs EXCEPT !.m_added_results = @ @@ (pointer :> Len(cs.result_keys)),
                                         !.result_keys = Append(@, key_of_output(node, output_index, prefix)),
                                         !.m_incomplete_outputs = @ \cup {pointer}],
                       result_index |-> Some(Len(cs.result_keys))]
       ELSE LET r == cs.m_added_results[pointer] IN
            [cs |-> add_instruction(cs, [Instr("push_result", r) EXCEPT !.index = r], 1),
             result_index |-> None]

end_operation_output(cs, op, output_index) ==
    IF cs.status # "ok" THEN cs
    ELSE [cs EXCEPT !.m_incomplete_outputs = @ \ {<<op, output_index>>}]

add_delay_info(cs, initial_value, result_index) ==
    [cs EXCEPT !.delays = Append(@, [initial_value |-> initial_value, result_index |-> result_index])]

\* sfg_info::find_input_operation_index; 0-based, -1 when the loop finds nothing (it throws)
find_input_operation_index(cs, info, op) ==
    LET ops == cs.g[info.sfg].input_operations
        hits == {i \in 1 .. Len(ops) : ops[i] = op}
    IN IF hits = {} THEN -1 ELSE (CHOOSE i \in hits : \A j \in hits : i <= j) - 1

push_sfg(sfg_stack, sfg, prefix_length) == Append(sfg_stack, [sfg |-> sfg, prefix_length |-> prefix_length])
pop_sfg(sfg_stack) == SubSeq(sfg_stack, 1, Len(sfg_stack) - 1)

InstructionTypeOf(type_name) ==
    CASE type_name = "add" -> "addition"
      [] type_name = "sub" -> "subtraction"
      [] type_name = "mul" -> "multiplication"
      [] type_name = "div" -> "division"
      [] type_name = "min" -> "min"
      [] type_name = "max" -> "max"
      [] type_name = "sqrt" -> "square_root"
      [] type_name = "conj" -> "complex_conjugate"
      [] type_name = "abs" -> "absolute"


\* A sfg_stack / prefix argument is a reference.  ref = "queue" says it refers into the
\* element of the deferred-delay queue that the range-for is visiting; every other
\* argument refers to a temporary of the caller (ref = "temp").
Dangles(cs, ref) == ref = "queue" /\ cs.invalidated
ReadFaults(cs, ref) == Dangles(cs, ref) /\ cs.dangling = "fault"
ReadStack(cs, sfg_stack, ref) == IF Dangles(cs, ref) THEN <<>> ELSE sfg_stack

try_add_custom_operation(cs, op) ==
    IF op \in DOMAIN cs.m_added_custom_operations THEN cs
    ELSE [cs EXCEPT !.m_added_custom_operations = @ @@ (op :> Cardinality(DOMAIN @)),
                    !.custom_operations = Append(@, [evaluate_output |-> op,
                                                     input_count |-> cs.g[op].input_count,
                                                     output_count |-> cs.g[op].output_count])]

RECURSIVE add_source(_, _, _, _, _, _)
RECURSIVE add_operation_output(_, _, _, _, _, _)
RECURSIVE add_custom_sources(_, _, _, _, _, _, _)

\* add_quantize with the mask 1 << bits, one bit too wide
add_quantize_wide(cs, bits) ==
    IF bits = None THEN cs
    ELSE IF bits[1] > 64 THEN Throw(cs, "QuantizationTooWide")
    ELSE add_instruction(cs, [Instr("quantize", no_result_index) EXCEPT !.bit_mask = shifted_mask(bits[1], cs.shift) + 1], 0)

\* add_quantize whose instruction stores into the result slot of the output it quantizes
add_quantize_stored(cs, bits) ==
    IF bits = None \/ cs.status # "ok" THEN cs
    ELSE IF bits[1] > 64 THEN Throw(cs, "QuantizationTooWide")
    ELSE add_instruction(cs, [Instr("quantize", cs.instructions[Len(cs.instructions)].result_index)
                                  EXCEPT !.bit_mask = shifted_mask(bits[1], cs.shift)], 0)

\* add_source once the signal's source is compiled: a signal that has bits is quantized
add_quantize(cs, bits) ==
    IF bits = None THEN cs
    ELSE IF bits[1] > 64 THEN Throw(cs, "QuantizationTooWide")
    ELSE add_instruction(cs, [Instr("quantize", no_result_index) EXCEPT !.bit_mask = shifted_mask(bits[1], cs.shift)], 0)

\* add_source for signal = op.inputs[input_index].signals[0]
add_signal(cs, signal, prefix, sfg_stack, ref) ==
    add_quantize(add_operation_output(cs, signal.source.operation, signal.source.index, prefix, sfg_stack, ref),
                 signal.bits)

add_source(cs, op, input_index, prefix, sfg_stack, ref) ==
    IF cs.status # "ok" THEN cs
    ELSE add_signal(cs, cs.g[op].inputs[input_index + 1], prefix, sfg_stack, ref)

add_unary_operation_output(cs, op, prefix, sfg_stack, ref, instruction) ==
    add_instruction(add_source(cs, op, 0, prefix, sfg_stack, ref), instruction, 0)

add_binary_operation_output(cs, op, prefix, sfg_stack, ref, instruction) ==
    add_instruction(add_source(add_source(cs, op, 0, prefix, sfg_stack, ref), op, 1, prefix, sfg_stack, ref),
                    instruction, -1)

\* type_name == "in", for info = sfg_stack.back() and its input_index
add_input_of(cs, op, result_index, prefix, sfg_stack, info, input_index) ==
    IF input_index < 0 THEN Throw(cs, "StrayInput")
    ELSE IF Len(sfg_stack) = 1
         THEN add_instruction(cs, [Instr("push_input", result_index) EXCEPT !.index = input_index], 1)
         ELSE add_instruction(add_source(cs, info.sfg, input_index, SubSeq(prefix, 1, info.prefix_length),
                                         pop_sfg(sfg_stack), "temp"),
                              Instr("forward_value", result_index), 0)

\* type_name == "in"
add_input(cs, op, result_index, prefix, sfg_stack) ==
    IF sfg_stack = <<>> THEN Throw(cs, "StrayInput")
    ELSE add_input_of(cs, op, result_index, prefix, sfg_stack, sfg_stack[Len(sfg_stack)],
                      find_input_operation_index(cs, sfg_stack[Len(sfg_stack)], op))

\* type_name == "t"
add_delay(cs, op, result_index, prefix, sfg_stack) ==
    add_instruction(
        emplace_deferred(add_delay_info(cs, cs.g[op].initial_value, result_index),
                         [delay_index |-> Len(cs.delays), op |-> op, prefix |-> prefix, sfg_stack |-> sfg_stack]),
        [Instr("push_delay", result_index) EXCEPT !.index = Len(cs.delays)], 1)

\* type_name == "sfg"
add_sfg_output(cs, op, output_index, result_index, prefix, sfg_stack) ==
    add_instruction(
        add_source(cs, cs.g[op].output_operations[output_index + 1], 0, key_base(cs.g[op], prefix),
                   push_sfg(sfg_stack, op, Len(prefix)), "temp"),
        Instr("forward_value", result_index), 0)

\* for (auto const i : range(custom_operation.input_count)) add_source(op, i, ...)
add_custom_sources(cs, op, i, n, prefix, sfg_stack, ref) ==
    IF i >= n THEN cs
    ELSE add_custom_sources(add_source(cs, op, i, prefix, sfg_stack, ref), op, i + 1, n, prefix, sfg_stack, ref)

\* the custom source and the custom instruction, once the sources are compiled
add_custom_source(cs, custom_operation_index, output_index, result_index, input_count) ==
    IF cs.status # "ok" THEN cs
    ELSE add_instruction([cs EXCEPT !.custom_sources =
                              Append(@, [custom_operation_index |-> custom_operation_index,
                                         output_index |-> output_index])],
                         [Instr("custom", result_index) EXCEPT !.index = Len(cs.custom_sources)],
                         1 - input_count)

\* any other type_name, for cs after try_add_custom_operation(op)
add_custom_operation_output(cs, op, output_index, result_index, prefix, sfg_stack, ref, custom_operation_index) ==
    add_custom_source(
        add_custom_sources(cs, op, 0, cs.custom_operations[custom_operation_index + 1].input_count,
                           prefix, sfg_stack, ref),
        custom_operation_index, output_index, result_index,
        cs.custom_operations[custom_operation_index + 1].input_count)

\* add_operation_output between begin_operation_output and end_operation_output
add_operation_instructions(cs, op, output_index, result_index, prefix, sfg_stack, ref, type_name) ==
    CASE type_name = "c" ->
            add_instruction(cs, [Instr("push_constant", result_index) EXCEPT !.value = cs.g[op].value], 1)
      [] type_name \in {"add", "sub", "mul", "div", "min", "max"} ->
            add_binary_operation_output(cs, op, prefix, sfg_stack, ref,
                                        Instr(InstructionTypeOf(type_name), result_index))
      [] type_name \in {"sqrt", "conj", "abs"} ->
            add_unary_operation_output(cs, op, prefix, sfg_stack, ref,
                                       Instr(InstructionTypeOf(type_name), result_index))
      [] type_name = "cmul" ->
            add_unary_operation_output(cs, op, prefix, sfg_stack, ref,
                                       [Instr("constant_multiplication", result_index) EXCEPT !.value = cs.g[op].value])
      [] type_name = "bfly" ->
            add_binary_operation_output(cs, op, prefix, sfg_stack, ref,
                                        Instr(IF output_index = 0 THEN "addition" ELSE "subtraction", result_index))
      [] type_name = "in" ->
            IF ReadFaults(cs, ref) THEN Throw(cs, "crash")
            ELSE add_input(cs, op, result_index, prefix, ReadStack(cs, sfg_stack, ref))
      [] type_name = "t" ->
            IF ReadFaults(cs, ref) THEN Throw(cs, "crash")
            ELSE add_delay(cs, op, result_index, prefix, ReadStack(cs, sfg_stack, ref))
      [] type_name = "sfg" ->
            IF ReadFaults(cs, ref) THEN Throw(cs, "crash")
            ELSE add_sfg_output(cs, op, output_index, result_index, prefix, ReadStack(cs, sfg_stack, ref))
      [] OTHER ->
            add_custom_operation_output(try_add_custom_operation(cs, op), op, output_index, result_index,
                                        prefix, sfg_stack, ref,
                                        try_add_custom_operation(cs, op).m_added_custom_operations[op])

\* add_operation_output after begin_operation_output returned b
add_begun_operation_output(b, op, output_index, prefix, sfg_stack, ref) ==
    IF b.result_index = None THEN b.cs
    ELSE end_operation_output(
             add_operation_instructions(b.cs, op, output_index, b.result_index[1], prefix, sfg_stack, ref,
                                        b.cs.g[op].type_name),
             op, output_index)

add_operation_output(cs, op, output_index, prefix, sfg_stack, ref) ==
    IF cs.status # "ok" THEN cs
    ELSE IF cs.g[op].type_name = "out" THEN add_source(cs, op, 0, prefix, sfg_stack, ref)
    ELSE add_begun_operation_output(begin_operation_output(cs, op, output_index, prefix),
                                    op, output_index, prefix, sfg_stack, ref)

\* for (auto const i : range(m_code.output_count)) add_operation_output(sfg, i, {}, {}, deferred_delays)
RECURSIVE add_outputs(_, _)
add_outputs(cs, i) ==
    IF i >= cs.output_count THEN cs
    ELSE add_outputs(add_operation_output(cs, "sfg", i, <<>>, <<>>, "temp"), i + 1)

\* The element the range-for visits: after a reallocation it is read from the freed block
deferred_entry(cs, k) ==
    IF cs.invalidated THEN [cs.deferred_delays[k] EXCEPT !.prefix = <<>>, !.sfg_stack = <<>>]
    ELSE cs.deferred_delays[k]

\* add_update_delay that stores the result of update_delay in the result slot of the delay
add_update_delay_recorded(cs, delay_index) ==
    IF cs.status = "ok" /\ cs.invalidated /\ cs.dangling = "fault" THEN Throw(cs, "crash")
    ELSE IF cs.status # "ok" THEN cs
    ELSE add_instruction(cs, [Instr("update_delay", cs.delays[delay_index + 1].result_index)
                                  EXCEPT !.index = delay_index], -1)

\* add_instruction(update_delay, no_result_index, -1).index = delay_index
add_update_delay(cs, delay_index) ==
    IF cs.status = "ok" /\ cs.invalidated /\ cs.dangling = "fault" THEN Throw(cs, "crash")
    ELSE add_instruction(cs, [Instr("update_delay", no_result_index) EXCEPT !.index = delay_index], -1)

\* The body of the range-for over deferred_delays
add_deferred_delay(cs, entry) ==
    add_update_delay(add_source(cs, entry.op, 0, entry.prefix, entry.sfg_stack, "queue"), entry.delay_index)

\* The range-for over deferred_delays: elements k .. n of the range whose begin and end
\* were taken when the loop started.
RECURSIVE deferred_loop(_, _, _)
deferred_loop(cs, k, n) ==
    IF k > n \/ cs.status # "ok" THEN cs
    ELSE IF cs.invalidated /\ cs.dangling = "fault" THEN Throw(cs, "crash")
    ELSE deferred_loop(add_deferred_delay(cs, deferred_entry(cs, k)), k + 1, n)

\* while (!deferred_delays.empty()) { ...; deferred_delays = new_deferred_delays; }
RECURSIVE add_deferred_delays(_)
add_deferred_delays(cs) ==
    IF cs.status # "ok" \/ cs.deferred_delays = <<>> THEN cs
    ELSE add_deferred_delays(
             [deferred_loop([cs EXCEPT !.iterating = TRUE], 1, Len(cs.deferred_delays))
                  EXCEPT !.deferred_delays = <<>>, !.iterating = FALSE, !.invalidated = FALSE])

\* resolve_invalid_result_indices that leaves the placeholder index in place
resolve_invalid_result_indices_skipped(cs) == cs

resolve_invalid_result_indices(cs) ==
    [cs EXCEPT !.instructions =
        [i \in 1 .. Len(cs.instructions) |->
            IF cs.instructions[i].result_index = no_result_index
            THEN [cs.instructions[i] EXCEPT !.result_index = Len(cs.result_keys)]
            ELSE cs.instructions[i]]]

\* The simulation_code compile returns, or the exception that ended it
simulation_code(cs) ==
    IF cs.status # "ok"
    THEN [status |-> cs.status]
    ELSE [status |-> "ok", instructions |-> cs.instructions,
          custom_operations |-> cs.custom_operations, custom_sources |-> cs.custom_sources,
          delays |-> cs.delays, result_keys |-> cs.result_keys,
          input_count |-> cs.input_count, output_count |-> cs.output_count,
          required_stack_size |-> cs.required_stack_size]

\* compiler::compile
compile(g, growth, dangling, shift) ==
    simulation_code(resolve_invalid_result_indices(
        add_deferred_delays(add_outputs(initialize_code(g, growth, dangling, shift), 0))))

----------------------------------------------------------------------------
(* run.cpp : run_simulation, one instruction at a time.  fr is the         *)
(* simulation_state together with the locals of the call: the stack        *)
(* buffer and stack_pointer, truncate and bits_override after              *)
(* setup_truncation_parameters, and fr.fault, the exception or failed      *)
(* assertion that ended the call ("none" while it runs).  fr.hwm records   *)
(* the largest stack depth reached, fr.trace the stack depth and the top   *)
(* of the stack after each instruction.                                    *)

\* Order in which the two operands of pop() - pop() and pop() / pop() are evaluated.
OperandOrders == {"left_first", "right_first"}

Fault(fr, what) == IF fr.fault = "none" THEN [fr EXCEPT !.fault = what] ELSE fr

push(fr, value) ==
    IF fr.fault # "none" THEN fr
    ELSE IF fr.stack_pointer >= Len(fr.stack) THEN Fault(fr, "stack_overflow")
    ELSE [fr EXCEPT !.stack[fr.stack_pointer + 1] = value,
                    !.stack_pointer = @ + 1,
                    !.hwm = IF fr.stack_pointer + 1 > @ THEN fr.stack_pointer + 1 ELSE @]

\* pop() returns *--stack_pointer: popped(fr) is the value, pop(fr) the state afterwards
popped(fr) == IF fr.fault = "none" /\ fr.stack_pointer > 0 THEN fr.stack[fr.stack_pointer] ELSE NaN
pop(fr) ==
    IF fr.fault # "none" THEN fr
    ELSE IF fr.stack_pointer <= 0 THEN Fault(fr, "stack_underflow")
    ELSE [fr EXCEPT !.stack_pointer = @ - 1]

\* truncate_value giving the masked integer as a signed value of the mask's width
truncate_value_signed(value, bit_mask) ==
    IF value.im # 0 THEN [fault |-> "ComplexQuantize", value |-> value]
    ELSE IF ~IsFinite(value) THEN [fault |-> "float_cast_overflow", value |-> value]
    ELSE [fault |-> "none",
          value |-> Num(IF 2 * BitAnd(ToInt64(value), bit_mask) > bit_mask
                        THEN BitAnd(ToInt64(value), bit_mask) - bit_mask - 1
                        ELSE BitAnd(ToInt64(value), bit_mask))]

\* truncate_value: [fault, value]
truncate_value(value, bit_mask) ==
    IF value.im # 0 THEN [fault |-> "ComplexQuantize", value |-> value]
    ELSE IF ~IsFinite(value) THEN [fault |-> "float_cast_overflow", value |-> value]
    ELSE [fault |-> "none", value |-> Num(BitAnd(ToInt64(value), bit_mask))]

\* push(truncate_value(pop(), bit_mask)), for f1 the frame after pop() and t the truncated value
push_truncated(f1, t) ==
    IF f1.fault # "none" THEN f1
    ELSE IF t.fault # "none" THEN Fault(f1, t.fault)
    ELSE push(f1, t.value)

truncate_top(fr, bit_mask) == push_truncated(pop(fr), truncate_value(popped(fr), bit_mask))

\* setup_truncation_parameters that keeps bits_override whatever truncate is
setup_truncation_parameters_kept(truncate, bits_override, shift) ==
    IF bits_override # None
    THEN IF bits_override[1] > 64
         THEN [fault |-> "QuantizationTooWide", truncate |-> FALSE, bits_override |-> bits_override, bit_mask_override |-> 0]
         ELSE [fault |-> "none", truncate |-> FALSE, bits_override |-> bits_override,
               bit_mask_override |-> shifted_mask(bits_override[1], shift)]
    ELSE [fault |-> "none", truncate |-> truncate, bits_override |-> None, bit_mask_override |-> 0]

\* setup_truncation_parameters without the test of the width: the shift count is taken
\* modulo 64, as the shift instruction of x86-64 takes it
setup_truncation_parameters_unchecked(truncate, bits_override, shift) ==
    IF truncate /\ bits_override # None
    THEN [fault |-> "none", truncate |-> FALSE, bits_override |-> bits_override,
          bit_mask_override |-> BitMask(bits_override[1] % 64)]
    ELSE [fault |-> "none", truncate |-> truncate, bits_override |-> None, bit_mask_override |-> 0]

\* setup_truncation_parameters: [fault, truncate, bits_override, bit_mask_override]
setup_truncation_parameters(truncate, bits_override, shift) ==
    IF truncate /\ bits_override # None
    THEN IF bits_override[1] > 64
         THEN [fault |-> "QuantizationTooWide", truncate |-> FALSE, bits_override |-> bits_override, bit_mask_override |-> 0]
         ELSE [fault |-> "none", truncate |-> FALSE, bits_override |-> bits_override,
               bit_mask_override |-> shifted_mask(bits_override[1], shift)]
    ELSE [fault |-> "none", truncate |-> truncate, bits_override |-> None, bit_mask_override |-> 0]

\* lhs OP rhs
apply_binary(type, lhs, rhs) ==
    CASE type = "addition" -> NumAdd(lhs, rhs)
      [] type = "subtraction" -> NumSub(lhs, rhs)
      [] type = "multiplication" -> NumMul(lhs, rhs)
      [] type = "division" -> NumDiv(lhs, rhs)

\* push(pop() OP pop()), for f2 the frame after both pops and first, second the values in the
\* order they were popped: the left operand is the first popped when the left call runs first
push_binary(f2, type, first, second, order) ==
    IF f2.fault # "none" THEN f2
    ELSE IF order = "left_first" THEN push(f2, apply_binary(type, first, second))
    ELSE push(f2, apply_binary(type, second, first))

binary(fr, type, order) == push_binary(pop(pop(fr)), type, popped(fr), popped(pop(fr)), order)

\* min / max comparing the real parts whatever the imaginary parts are
push_minmax_unchecked(f2, type, lhs, rhs) ==
    IF f2.fault # "none" THEN f2
    ELSE push(f2, IF type = "min" THEN NumMin(lhs, rhs) ELSE NumMax(lhs, rhs))

\* min / max: lhs = pop(); rhs = pop(); f2 is the frame after both
push_minmax(f2, type, lhs, rhs) ==
    IF f2.fault # "none" THEN f2
    ELSE IF lhs.im # 0 \/ rhs.im # 0 THEN Fault(f2, "ComplexOrder")
    ELSE push(f2, IF type = "min" THEN NumMin(lhs, rhs) ELSE NumMax(lhs, rhs))

minmax(fr, type) == push_minmax(pop(pop(fr)), type, popped(fr), popped(pop(fr)))

PerfectRoot(n) == IF \E r \in 0 .. n : r * r = n THEN CHOOSE r \in 0 .. n : r * r = n ELSE -1

\* std::sqrt / std::abs, exact where the result is rational
NumSqrt(a) ==
    IF a.im = 0 /\ a.re >= 0 /\ a.den # 0 /\ PerfectRoot(a.re) >= 0 /\ PerfectRoot(a.den) >= 0
    THEN [re |-> PerfectRoot(a.re), im |-> 0, den |-> PerfectRoot(a.den)]
    ELSE NaN
NumAbs(a) ==
    IF a.im = 0 THEN [a EXCEPT !.re = AbsInt(a.re)]
    ELSE IF PerfectRoot(a.re * a.re + a.im * a.im) >= 0
         THEN Norm([re |-> PerfectRoot(a.re * a.re + a.im * a.im), im |-> 0, den |-> a.den])
         ELSE NaN

\* push(f(pop())), for f1 the frame after pop() and x the popped value
push_unary(f1, type, x, value) ==
    IF f1.fault # "none" THEN f1
    ELSE CASE type = "square_root" -> push(f1, NumSqrt(x))
           [] type = "complex_conjugate" -> push(f1, NumConj(x))
           [] type = "absolute" -> push(f1, NumAbs(x))
           [] type = "constant_multiplication" -> push(f1, NumMul(x, value))

unary(fr, type, value) == push_unary(pop(fr), type, popped(fr), value)

\* The Python callable of a custom operation: evaluate_output(output_index, input_values).
\* The model's callable weighs its inputs by position: sum of (i + 1) * input_values[i],
\* plus output_index.
evaluate_output(op, output_index, input_values) ==
    LET RECURSIVE weigh(_)
        weigh(i) == IF i > Len(input_values) THEN Num(output_index)
                    ELSE NumAdd(NumMul(Num(i), input_values[i]), weigh(i + 1))
    IN weigh(1)

\* The inputs gathered with the value popped last as element 0
RECURSIVE pop_inputs_reversed(_, _, _)
pop_inputs_reversed(fr, n, input_values) ==
    IF n = 0 \/ fr.fault # "none" THEN [fr |-> fr, input_values |-> input_values]
    ELSE pop_inputs_reversed(pop(fr), n - 1, <<popped(fr)>> \o input_values)

\* for (i < op.input_count) input_values.push_back(pop());
RECURSIVE pop_inputs(_, _, _)
pop_inputs(fr, n, input_values) ==
    IF n = 0 \/ fr.fault # "none" THEN [fr |-> fr, input_values |-> input_values]
    ELSE pop_inputs(pop(fr), n - 1, Append(input_values, popped(fr)))

\* update_delay popping the value and leaving the register as it was
store_delay_skipped(f1, delays, index, value) == [fr |-> f1, delays |-> delays]

\* update_delay taking the value below the popped one off the stack as well
store_delay_draining(f1, delays, index, value) ==
    [fr |-> pop(f1), delays |-> IF f1.fault = "none" THEN [delays EXCEPT ![index + 1] = value] ELSE delays]

\* delays[instruction.index] = pop(), for f1 the frame after pop() and value the popped value
store_delay(f1, delays, index, value) ==
    [fr |-> f1, delays |-> IF f1.fault = "none" THEN [delays EXCEPT ![index + 1] = value] ELSE delays]

\* push(op.evaluate_output(src.output_index, input_values)), for p the popped inputs
push_custom(p, op, src) == push(p.fr, evaluate_output(op.evaluate_output, src.output_index, p.input_values))

custom(cd, fr, src) ==
    push_custom(pop_inputs(fr, cd.custom_operations[src.custom_operation_index + 1].input_count, <<>>),
                cd.custom_operations[src.custom_operation_index + 1], src)

\* The switch of the evaluation loop, for the instructions that leave the delays alone
execute(cd, fr, instruction, inputs, delays, order, type) ==
    CASE type = "push_input" ->
            IF instruction.index < Len(inputs) THEN push(fr, inputs[instruction.index + 1])
            ELSE IF fr.build = "stale_storage" THEN push(fr, NaN)
            ELSE Fault(fr, fr.build)
      [] type = "push_result" -> push(fr, fr.results[instruction.index + 1])
      [] type = "push_delay" -> push(fr, delays[instruction.index + 1])
      [] type = "push_constant" -> push(fr, instruction.value)
      [] type = "quantize" -> IF fr.truncate THEN truncate_top(fr, instruction.bit_mask) ELSE fr
      [] type \in {"addition", "subtraction", "multiplication", "division"} -> binary(fr, type, order)
      [] type \in {"min", "max"} -> minmax(fr, type)
      [] type \in {"square_root", "complex_conjugate", "absolute", "constant_multiplication"} ->
             unary(fr, type, instruction.value)
      [] type = "custom" -> custom(cd, fr, cd.custom_sources[instruction.index + 1])
      [] type = "forward_value" -> fr

\* The switch of the evaluation loop: [fr, delays]
switch(cd, fr, instruction, inputs, delays, order) ==
    IF instruction.type = "update_delay"
    THEN store_delay(pop(fr), delays, instruction.index, popped(fr))
    ELSE [fr |-> execute(cd, fr, instruction, inputs, delays, order, instruction.type), delays |-> delays]

\* the bits_override truncation made to depend on truncate, which is false by then
override_when_truncating(fr) ==
    IF fr.truncate /\ fr.bits_override # None THEN truncate_top(fr, fr.bit_mask_override) ELSE fr

\* if (bits_override) push(truncate_value(pop(), bit_mask_override));
override(fr) == IF fr.bits_override # None THEN truncate_top(fr, fr.bit_mask_override) ELSE fr

\* state.results[instruction.result_index] = peek();
store_result(fr, result_index) ==
    IF fr.fault # "none" THEN fr
    ELSE IF fr.stack_pointer <= 0 THEN Fault(fr, "stack_underflow")
    ELSE [fr EXCEPT !.results[result_index + 1] = fr.stack[fr.stack_pointer]]

\* The end of one turn: the next instruction, and the record of this one
advance(fr) ==
    [fr EXCEPT !.ip = @ + 1,
               !.trace = Append(@, [depth |-> fr.stack_pointer,
                                    top |-> IF fr.fault = "none" THEN fr.stack[fr.stack_pointer] ELSE NaN])]

\* One turn of the loop: the switch, the bits_override truncation, and storing the result.
after_switch(e, instruction) ==
    [fr |-> advance(store_result(override(e.fr), instruction.result_index)), delays |-> e.delays]

evaluate(cd, fr, instruction, inputs, delays, order) ==
    after_switch(switch(cd, fr, instruction, inputs, delays, order), instruction)

Zeros(n) == [i \in 1 .. n |-> Num(0)]

\* The last delay of the table that stores into results[r]
last_delay(cd, r) ==
    CHOOSE i \in 1 .. Len(cd.delays) :
        /\ cd.delays[i].result_index = r
        /\ \A j \in 1 .. Len(cd.delays) : cd.delays[j].result_index = r => j <= i

\* state.results after "Initialize delay results to their current values"
initial_results(cd, delays) ==
    [r \in 1 .. Len(cd.result_keys) + 1 |->
        IF \E i \in 1 .. Len(cd.delays) : cd.delays[i].result_index = r - 1
        THEN delays[last_delay(cd, r - 1)] ELSE Num(0)]

\* run_simulation up to the evaluation loop, for t what setup_truncation_parameters gives
\* and build what the build does when an assertion fails
frame(cd, delays, t, build) ==
    [stack |-> Zeros(cd.required_stack_size), stack_pointer |-> 0, build |-> build,
     results |-> initial_results(cd, delays),
     ip |-> 1, truncate |-> t.truncate, bits_override |-> t.bits_override,
     bit_mask_override |-> t.bit_mask_override, fault |-> t.fault, hwm |-> 0, trace |-> <<>>]

begin_run(cd, inputs, delays, bits_override, truncate, shift, build) ==
    frame(cd, delays, setup_truncation_parameters(truncate, bits_override, shift), build)

\* for (auto const& instruction : code.instructions) ...
RECURSIVE evaluation_loop(_, _, _, _, _)
evaluation_loop(cd, e, inputs, order, ip) ==
    IF e.fr.fault # "none" \/ ip > Len(cd.instructions) THEN e
    ELSE evaluation_loop(cd, evaluate(cd, e.fr, cd.instructions[ip], inputs, e.delays, order), inputs, order, ip + 1)

\* What a build does when an ASIC_ASSERT at the top of run_simulation, or the assertion of
\* span::operator[], does not hold: a debug build aborts; a release build goes on and reads
\* the span out of bounds, which finds the storage the cleared vector still owns (behind the
\* inputs: a value that is no input of the call, NaN stands for it), or faults.
MismatchOutcomes == {"assert_abort", "stale_storage", "fault"}

\* The assertions at the top of run_simulation
Preconditions(cd, inputs, size) ==
    /\ Len(inputs) = cd.input_count
    /\ size = Len(cd.delays)
    /\ cd.output_count <= cd.required_stack_size

\* The assertion of span::operator[] in every inputs[instruction.index] of the program
InputsInRange(cd, inputs) ==
    \A i \in 1 .. Len(cd.instructions) :
        cd.instructions[i].type = "push_input" => cd.instructions[i].index < Len(inputs)

\* simulation_state without the erase of the part of the stack above the outputs
simulation_state_unerased(cd, e) ==
    [fault |-> e.fr.fault,
     stack |-> IF e.fr.fault = "none" THEN e.fr.stack ELSE <<>>,
     results |-> SubSeq(e.fr.results, 1, Len(e.fr.results) - 1),
     delays |-> e.delays,
     fr |-> [hwm |-> e.fr.hwm, trace |-> e.fr.trace, stack_pointer |-> e.fr.stack_pointer]]

\* The simulation_state run_simulation returns, for e the end of the evaluation loop:
\* [fault, stack, results, delays, fr]; delays is the storage behind the span
simulation_state(cd, e) ==
    [fault |-> e.fr.fault,
     stack |-> IF e.fr.fault = "none" THEN SubSeq(e.fr.stack, 1, cd.output_count) ELSE <<>>,
     results |-> SubSeq(e.fr.results, 1, Len(e.fr.results) - 1),
     delays |-> e.delays,
     fr |-> [hwm |-> e.fr.hwm, trace |-> e.fr.trace, stack_pointer |-> e.fr.stack_pointer]]

run_simulation(cd, inputs, delays, size, bits_override, truncate, order, build, shift) ==
    IF ~Preconditions(cd, inputs, size) /\ build # "stale_storage"
    THEN [fault |-> build, stack |-> <<>>, results |-> <<>>, delays |-> delays,
          fr |-> [hwm |-> 0, trace |-> <<>>, stack_pointer |-> 0]]
    ELSE simulation_state(cd, evaluation_loop(
             cd, [fr |-> begin_run(cd, inputs, delays, bits_override, truncate, shift, build), delays |-> delays],
             inputs, order, 1))

----------------------------------------------------------------------------
(* simulation.cpp : class simulation (the driver).                         *)

\* iteration_type = std::uint32_t, kept as two 16-bit halves
U32(n) == [hi |-> n \div 65536, lo |-> n % 65536]
iteration_max == [hi |-> 65535, lo |-> 65535]
U32Less(a, b) == a.hi < b.hi \/ (a.hi = b.hi /\ a.lo < b.lo)
\* a - b for a >= b
U32Sub(a, b) == IF a.lo >= b.lo THEN [hi |-> a.hi - b.hi, lo |-> a.lo - b.lo]
                ELSE [hi |-> a.hi - b.hi - 1, lo |-> a.lo + 65536 - b.lo]
\* a + b modulo 2^32
U32Add(a, b) == [hi |-> (a.hi + b.hi + (a.lo + b.lo) \div 65536) % 65536, lo |-> (a.lo + b.lo) % 65536]

\* input_function_type, as the provider it was made from
ConstantInput(v) == [kind |-> "constant", value |-> v, values |-> <<>>]
ListInput(vs)    == [kind |-> "list", value |-> Num(0), values |-> vs]
CallableInput    == [kind |-> "callable", value |-> Num(0), values |-> <<>>]

\* function(m_iteration): [fault, value]
CallInput(function, n) ==
    CASE function.kind = "constant" -> [fault |-> "none", value |-> function.value]
      [] function.kind = "list" ->
            IF n < Len(function.values) THEN [fault |-> "none", value |-> function.values[n + 1]]
            ELSE [fault |-> "out_of_range", value |-> Num(0)]
      [] function.kind = "callable" -> [fault |-> "none", value |-> Num(n + 1)]

\* Providers and arguments the driver is exercised with.
InputProviders ==
    {ConstantInput(Cplx(2, 1)), ListInput(<<Num(5), Num(6), Num(7)>>), ListInput(<<Num(-3), Cplx(2, 1)>>),
     CallableInput}

Args(save_results, bits_override, quantize) ==
    [save_results |-> save_results, bits_override |-> bits_override, quantize |-> quantize]
\* (save_results, bits_override, quantize): the defaults of the bindings first
ArgChoices == {Args(TRUE, None, TRUE), Args(TRUE, Some(MaxBits), TRUE), Args(TRUE, Some(MaxBits), FALSE),
               Args(FALSE, None, TRUE), Args(TRUE, Some(WideBits), TRUE)}
RunForChoices == {U32(2), iteration_max}
RunUntilChoices == {U32(0), U32(2)}

\* How a call ended: what it returned, or the exception or abort that ended it, with (at) the
\* iteration that failed
NoOutcome == [kind |-> "none", op |-> "none", error |-> "none", value |-> <<>>, at |-> None]
Returned(op, value) == [kind |-> "returned", op |-> op, error |-> "none", value |-> value, at |-> None]
Raised(op, error) == [kind |-> "raised", op |-> op, error |-> error, value |-> <<>>, at |-> None]
Aborted(op, error) == [kind |-> "aborted", op |-> op, error |-> error, value |-> <<>>, at |-> None]

\* Failed ASIC_ASSERTs and memory faults end the process; everything else is an exception.
IsAbort(fault) == fault \in {"stack_overflow", "stack_underflow", "float_cast_overflow", "assert_abort", "fault"}
Ended(op, fault, value, at) ==
    IF fault = "none" THEN Returned(op, value)
    ELSE [(IF IsAbort(fault) THEN Aborted(op, fault) ELSE Raised(op, fault)) EXCEPT !.at = at]

VARIABLES
    sfg,                \* the source graph handed to the constructor (a catalogue entry)
    code,               \* m_code, or the status of the failed compilation
    m_delays,           \* [size, data]: the vector's size and its storage
    m_input_functions,
    m_input_length,
    m_iteration,
    m_results,
    outcome,            \* how the last call ended
    log,                \* one record per completed iteration
    calls               \* number of calls made on the simulation

vars == <<sfg, code, m_delays, m_input_functions, m_input_length, m_iteration, m_results, outcome, log,
          calls>>

Delays == SubSeq(m_delays.data, 1, m_delays.size)

Init ==
    /\ sfg \in Catalogue
    /\ code = [status |-> "none"]
    /\ m_delays = [size |-> 0, data |-> <<>>]
    /\ m_input_functions = <<>>
    /\ m_input_length = None
    /\ m_iteration = 0
    /\ m_results = <<>>
    /\ outcome = NoOutcome
    /\ log = <<>>
    /\ calls = 0

\* The members after the constructor ran with m_code = c, or how it failed
constructed(c) ==
    /\ code' = c
    /\ IF c.status = "ok"
       THEN /\ m_delays' = [size |-> Len(c.delays),
                            data |-> [i \in 1 .. Len(c.delays) |-> c.delays[i].initial_value]]
            /\ m_input_functions' = [i \in 1 .. GraphOf(sfg)["sfg"].input_count |-> ConstantInput(Num(0))]
            /\ outcome' = Returned("construct", <<>>)
       ELSE /\ UNCHANGED <<m_delays, m_input_functions>>
            /\ outcome' = IF c.status = "crash" THEN Aborted("construct", "fault")
                          ELSE Raised("construct", c.status)

\* simulation::simulation(sfg)
Construct ==
    /\ code.status = "none"
    /\ \E growth \in GrowthPolicies, dangling \in DanglingOutcomes, shift \in ShiftOutcomes :
          constructed(compile(GraphOf(sfg), growth, dangling, shift))
    /\ UNCHANGED <<sfg, m_input_length, m_iteration, m_results, log, calls>>

Ready ==
    /\ code.status = "ok"
    /\ outcome.kind # "aborted"
    /\ calls < MaxCalls
    /\ calls' = calls + 1

\* set_input binding a sequence whatever its length, keeping input_length once set
set_input_unchecked(index, input_provider) ==
    IF index >= Len(m_input_functions)
    THEN [fault |-> "InputIndexOutOfRange", functions |-> m_input_functions, length |-> m_input_length]
    ELSE [fault |-> "none", functions |-> [m_input_functions EXCEPT ![index + 1] = input_provider],
          length |-> IF input_provider.kind = "list" /\ m_input_length = None
                     THEN Some(Len(input_provider.values)) ELSE m_input_length]

\* The body of simulation::set_input on the members (functions, length): [fault, functions, length]
bind(functions, length, index, input_provider) ==
    IF index >= Len(functions)
    THEN [fault |-> "InputIndexOutOfRange", functions |-> functions, length |-> length]
    ELSE IF input_provider.kind = "list"
         THEN IF length = None
              THEN [fault |-> "none", functions |-> [functions EXCEPT ![index + 1] = input_provider],
                    length |-> Some(Len(input_provider.values))]
              ELSE IF length[1] # Len(input_provider.values)
                   THEN [fault |-> "InconsistentInputLength", functions |-> functions, length |-> length]
                   ELSE [fault |-> "none", functions |-> [functions EXCEPT ![index + 1] = input_provider],
                         length |-> length]
         ELSE [fault |-> "none", functions |-> [functions EXCEPT ![index + 1] = input_provider],
               length |-> length]

\* simulation::set_input: [fault, functions, length]
set_input(index, input_provider) == bind(m_input_functions, m_input_length, index, input_provider)

\* The members after set_input ended as r
input_set(r) ==
    /\ m_input_functions' = r.functions
    /\ m_input_length' = r.length
    /\ outcome' = Ended("set_input", r.fault, <<>>, None)

SetInput ==
    /\ Ready
    /\ \E index \in 0 .. Len(m_input_functions), input_provider \in InputProviders :
          input_set(set_input(index, input_provider))
    /\ UNCHANGED <<sfg, code, m_delays, m_iteration, m_results, log>>

\* The loop of set_inputs from entry i on: this->set_input(i, *input_provider) for each entry
\* that holds a provider, until one throws
RECURSIVE enumerate(_, _, _)
enumerate(r, input_providers, i) ==
    IF r.fault # "none" \/ i > Len(input_providers) THEN r
    ELSE enumerate(IF input_providers[i] = None THEN r
                   ELSE bind(r.functions, r.length, i - 1, input_providers[i][1]),
                   input_providers, i + 1)

\* set_inputs taking an entry without a provider for the default provider
set_inputs_defaulting(input_providers) ==
    IF Len(input_providers) # Len(m_input_functions)
    THEN [fault |-> "WrongNumberOfInputs", functions |-> m_input_functions, length |-> m_input_length]
    ELSE enumerate([fault |-> "none", functions |-> m_input_functions, length |-> m_input_length],
                   [i \in 1 .. Len(input_providers) |->
                       IF input_providers[i] = None THEN Some(ConstantInput(Num(0))) ELSE input_providers[i]], 1)

\* simulation::set_inputs: [fault, functions, length]
set_inputs(input_providers) ==
    IF Len(input_providers) # Len(m_input_functions)
    THEN [fault |-> "WrongNumberOfInputs", functions |-> m_input_functions, length |-> m_input_length]
    ELSE enumerate([fault |-> "none", functions |-> m_input_functions, length |-> m_input_length],
                   input_providers, 1)

\* The entries set_inputs is exercised with, and the lists of them for n inputs: every list
\* of n entries, and one that is too long
InputEntries == {None, Some(ListInput(<<Num(5), Num(6), Num(7)>>)), Some(ListInput(<<Num(-3), Cplx(2, 1)>>)),
                 Some(ConstantInput(Num(3))), Some(ConstantInput(Num(4)))}
InputLists(n) == [1 .. n -> InputEntries] \cup {[i \in 1 .. n + 1 |-> None]}

\* The members after set_inputs ended as r
inputs_set(r) ==
    /\ m_input_functions' = r.functions
    /\ m_input_length' = r.length
    /\ outcome' = Ended("set_inputs", r.fault, <<>>, None)

SetInputs ==
    /\ Ready
    /\ \E input_providers \in InputLists(Len(m_input_functions)) : inputs_set(set_inputs(input_providers))
    /\ UNCHANGED <<sfg, code, m_delays, m_iteration, m_results, log>>

\* The members with the delay registers back at their initial values
Driver_restarting ==
    [m_delays |-> [m_delays EXCEPT !.data = [i \in 1 .. Len(code.delays) |-> code.delays[i].initial_value]],
     m_iteration |-> m_iteration, m_results |-> m_results, log |-> log,
     fault |-> "none", result |-> <<>>, at |-> None, shift |-> "count_mod_64"]

\* The members run_until changes, as one record, with the locals of the call: fault, result,
\* at, and shift, what 1 << 64 gives on the build that runs the call
Driver == [m_delays |-> m_delays, m_iteration |-> m_iteration, m_results |-> m_results, log |-> log,
           fault |-> "none", result |-> <<>>, at |-> None, shift |-> "count_mod_64"]

\* An iteration as the log and a failed call's outcome name it
Iteration(iteration, inputs, args) ==
    [iteration |-> iteration, inputs |-> inputs, quantize |-> args.quantize, bits_override |-> args.bits_override]

\* input = function(m_iteration) for each input: [fault, value] each
gather(n) == [i \in 1 .. Len(m_input_functions) |-> CallInput(m_input_functions[i], n)]

\* std::vector<number>(m_code.input_count) with the gathered values
input_values(gathered) ==
    [i \in 1 .. code.input_count |-> IF i <= Len(gathered) THEN gathered[i].value ELSE Num(0)]

\* The record of a completed iteration
completed(d, state, inputs, args) ==
    [iteration |-> d.m_iteration, inputs |-> inputs, save_results |-> args.save_results,
     quantize |-> args.quantize, bits_override |-> args.bits_override,
     bit_mask_override |-> IF args.quantize /\ args.bits_override # None
                           THEN shifted_mask(args.bits_override[1], d.shift) ELSE 0,
     results |-> state.results, stack |-> state.stack,
     delays_before |-> d.m_delays.data, delays_after |-> state.delays,
     hwm |-> state.fr.hwm, trace |-> state.fr.trace, stack_pointer |-> state.fr.stack_pointer]

\* The loop body saving and counting an iteration before knowing that it completed
iterated_counting(d, state, inputs, args) ==
    IF state.fault # "none"
    THEN [d EXCEPT !.fault = state.fault, !.m_delays.data = state.delays,
                   !.m_results = IF args.save_results THEN Append(@, state.results) ELSE @,
                   !.m_iteration = @ + 1,
                   !.at = Some(Iteration(d.m_iteration, inputs, args))]
    ELSE [d EXCEPT !.result = state.stack,
                   !.m_delays.data = state.delays,
                   !.m_results = IF args.save_results THEN Append(@, state.results) ELSE @,
                   !.m_iteration = @ + 1,
                   !.log = Append(@, completed(d, state, inputs, args))]

\* The body of the while loop after run_simulation returned state (or threw)
iterated(d, state, inputs, args) ==
    IF state.fault # "none"
    THEN [d EXCEPT !.fault = state.fault, !.m_delays.data = state.delays,
                   !.at = Some(Iteration(d.m_iteration, inputs, args))]
    ELSE [d EXCEPT !.result = state.stack,
                   !.m_delays.data = state.delays,
                   !.m_results = IF args.save_results THEN Append(@, state.results) ELSE @,
                   !.m_iteration = @ + 1,
                   !.log = Append(@, completed(d, state, inputs, args))]

\* The body of the while loop, for the gathered inputs
iterate(d, gathered, args, order, build) ==
    IF \E i \in 1 .. Len(gathered) : gathered[i].fault # "none"
    THEN [d EXCEPT !.fault = "out_of_range", !.at = Some(Iteration(d.m_iteration, <<>>, args))]
    ELSE iterated(d, run_simulation(code, input_values(gathered), d.m_delays.data, d.m_delays.size,
                                    args.bits_override, args.quantize, order, build, d.shift),
                  input_values(gathered), args)

\* run_until with the loop condition m_iteration <= iteration
RECURSIVE run_until_inclusive(_, _, _, _, _)
run_until_inclusive(d, iteration, args, order, build) ==
    IF d.fault # "none" \/ U32Less(iteration, U32(d.m_iteration)) THEN d
    ELSE run_until_inclusive(iterate(d, gather(d.m_iteration), args, order, build), iteration, args, order, build)

\* simulation::run_until: while (m_iteration < iteration) { ... } return result;
RECURSIVE run_until(_, _, _, _, _)
run_until(d, iteration, args, order, build) ==
    IF d.fault # "none" \/ ~U32Less(U32(d.m_iteration), iteration) THEN d
    ELSE run_until(iterate(d, gather(d.m_iteration), args, order, build), iteration, args, order, build)

\* The operand orders a program can tell apart: the order of pop() - pop() and pop() / pop()
\* is the compiler's choice, and the other instructions give the same result either way.
Orders(cd) ==
    IF \E i \in 1 .. Len(cd.instructions) : cd.instructions[i].type \in {"subtraction", "division"}
    THEN OperandOrders ELSE {"left_first"}

\* The shifts a call can tell apart: they differ only for a bits_override of FullBits.
Shifts(args) == IF args.bits_override = Some(FullBits) THEN ShiftOutcomes ELSE {"count_mod_64"}

\* The builds a call can tell apart: they differ only once an assertion fails.
Builds(cd, size) ==
    IF /\ Preconditions(cd, [i \in 1 .. cd.input_count |-> Num(0)], size)
       /\ InputsInRange(cd, [i \in 1 .. cd.input_count |-> Num(0)])
    THEN {"assert_abort"} ELSE MismatchOutcomes

\* The members after run_until ended as d
ran(op, d) ==
    /\ m_delays' = d.m_delays
    /\ m_iteration' = d.m_iteration
    /\ m_results' = d.m_results
    /\ log' = d.log
    /\ outcome' = Ended(op, d.fault, d.result, d.at)

\* A call of run_until (directly or from run_for, step, run) and what it leaves behind.
\* The model runs at most MaxIter iterations in all.
RunUntilCall(op, iteration, args) ==
    /\ U32Less(iteration, U32(MaxIter + 1))
    /\ \E order \in Orders(code), build \in Builds(code, m_delays.size), shift \in Shifts(args) :
          ran(op, run_until([Driver EXCEPT !.shift = shift], iteration, args, order, build))

RunUntil ==
    /\ Ready
    /\ \E iteration \in RunUntilChoices, args \in ArgChoices : RunUntilCall("run_until", iteration, args)
    /\ UNCHANGED <<sfg, code, m_input_functions, m_input_length>>

\* run_for without the overflow test: the sum wraps
run_for_unchecked(op, iterations, args) == RunUntilCall(op, U32Add(U32(m_iteration), iterations), args)

\* simulation::run_for
run_for(op, iterations, args) ==
    IF U32Less(U32Sub(iteration_max, U32(m_iteration)), iterations)
    THEN /\ outcome' = Raised(op, "IterationOverflow")
         /\ UNCHANGED <<m_delays, m_iteration, m_results, log>>
    ELSE RunUntilCall(op, U32Add(U32(m_iteration), iterations), args)

RunFor ==
    /\ Ready
    /\ \E iterations \in RunForChoices, args \in ArgChoices : run_for("run_for", iterations, args)
    /\ UNCHANGED <<sfg, code, m_input_functions, m_input_length>>

\* step is also called with the largest override, on the graphs that have no input
StepChoices ==
    IF m_input_functions = <<>> THEN ArgChoices \cup {Args(TRUE, Some(FullBits), TRUE)} ELSE ArgChoices

\* simulation::step
Step ==
    /\ Ready
    /\ \E args \in StepChoices : run_for("step", U32(1), args)
    /\ UNCHANGED <<sfg, code, m_input_functions, m_input_length>>

\* run as run_until(input_length + 1)
RunPastEnd ==
    /\ Ready
    /\ \E args \in ArgChoices :
          IF m_input_length # None
          THEN RunUntilCall("run", U32(m_input_length[1] + 1), args)
          ELSE /\ outcome' = Raised("run", "UnlimitedRun")
               /\ UNCHANGED <<m_delays, m_iteration, m_results, log>>
    /\ UNCHANGED <<sfg, code, m_input_functions, m_input_length>>

\* simulation::run
Run ==
    /\ Ready
    /\ \E args \in ArgChoices :
          IF m_input_length # None
          THEN RunUntilCall("run", U32(m_input_length[1]), args)
          ELSE /\ outcome' = Raised("run", "UnlimitedRun")
               /\ UNCHANGED <<m_delays, m_iteration, m_results, log>>
    /\ UNCHANGED <<sfg, code, m_input_functions, m_input_length>>

\* values of results(): result[i] of every saved iteration
column(i) == [t \in 1 .. Len(m_results) |-> m_results[t][i]]

\* results() filling the dictionary whether or not anything was saved
results_all ==
    [key \in {code.result_keys[i] : i \in 1 .. Len(code.result_keys)} |->
        column(CHOOSE i \in 1 .. Len(code.result_keys) :
                   /\ code.result_keys[i] = key
                   /\ \A j \in i + 1 .. Len(code.result_keys) : code.result_keys[j] # key)]

\* simulation::results: the dictionary, as a function of the keys it holds.  An assignment
\* results[key] = ... replaces what an equal key held.
results ==
    IF m_results # <<>>
    THEN [key \in {code.result_keys[i] : i \in 1 .. Len(code.result_keys)} |->
             column(CHOOSE i \in 1 .. Len(code.result_keys) :
                        /\ code.result_keys[i] = key
                        /\ \A j \in i + 1 .. Len(code.result_keys) : code.result_keys[j] # key)]
    ELSE <<>>

\* simulation::clear_results
ClearResults ==
    /\ Ready
    /\ m_results' = <<>>
    /\ outcome' = Returned("clear_results", <<>>)
    /\ UNCHANGED <<sfg, code, m_delays, m_input_functions, m_input_length, m_iteration, log>>

\* simulation::clear_state: m_delays.clear() leaves the vector empty and keeps its storage
ClearState ==
    /\ Ready
    /\ m_delays' = [m_delays EXCEPT !.size = 0]
    /\ outcome' = Returned("clear_state", <<>>)
    /\ UNCHANGED <<sfg, code, m_input_functions, m_input_length, m_iteration, m_results, log>>

Next ==
    \/ Construct
    \/ SetInput
    \/ SetInputs
    \/ Step
    \/ RunFor
    \/ RunUntil
    \/ Run
    \/ ClearResults
    \/ ClearState

Spec == Init /\ [][Next]_vars

----------------------------------------------------------------------------
(* Properties.  They are stated over the compiled program (code), the      *)
(* record of the completed iterations (log) and the way the last call      *)
(* ended (outcome).                                                        *)

Compiled == code.status = "ok"
Graph == GraphOf(sfg)
Positions == 1 .. Len(code.instructions)
Entries == 1 .. Len(log)
PushTypes == {"push_input", "push_result", "push_delay", "push_constant"}

\* Positions of the instructions of one type that name delay d
DelayInstructions(type, d) ==
    {k \in Positions : code.instructions[k].type = type /\ code.instructions[k].index = d}

\* Position of a key in result_keys, 0 when the output was never compiled
KeyIndex(key) ==
    IF \E i \in 1 .. Len(code.result_keys) : code.result_keys[i] = key
    THEN CHOOSE i \in 1 .. Len(code.result_keys) : code.result_keys[i] = key
    ELSE 0

NodesOfType(type) == {n \in DOMAIN Graph : Graph[n].type_name = type}
OutputKey(n) == key_of_output(Graph[n], 0, <<>>)
SourceOf(n) == Graph[n].inputs[1].source
InputIndex(n) == CHOOSE i \in 1 .. Len(Graph["sfg"].input_operations) : Graph["sfg"].input_operations[i] = n

\* The value an output of the graph had in a logged iteration, where the log tells
Known(src) ==
    \/ Graph[src.operation].type_name = "in"
    \/ KeyIndex(key_of_output(Graph[src.operation], src.index, <<>>)) # 0
ValueAt(src, entry) ==
    IF Graph[src.operation].type_name = "in" THEN entry.inputs[InputIndex(src.operation)]
    ELSE entry.results[KeyIndex(key_of_output(Graph[src.operation], src.index, <<>>))]

\* A real integer of at most b bits
InRange(v, b) == v.im = 0 /\ v.den = 1 /\ 0 <= v.re /\ v.re < Pow2(b)

\* Iterations run with per-edge quantization, with the override, and with quantize = false
PerEdge(entry) == entry.quantize /\ entry.bits_override = None
Overridden(entry) == entry.quantize /\ entry.bits_override # None
Unquantized(entry) == ~entry.quantize

\* Consumers (conj nodes) whose input edge carries the width bits
ConsumersOver(bits) == {n \in NodesOfType("conj") : Graph[n].inputs[1].bits = bits}

\* The nodes a node reads without crossing a delay, and everything reachable that way
DelayFreeSources(g, n) ==
    IF g[n].type_name = "t" THEN {}
    ELSE {g[n].inputs[i].source.operation : i \in 1 .. Len(g[n].inputs)}
RECURSIVE DelayFreeClosure(_, _)
DelayFreeClosure(g, S) ==
    LET T == S \cup UNION {DelayFreeSources(g, m) : m \in S}
    IN IF T = S THEN S ELSE DelayFreeClosure(g, T)
\* A cycle of the graph that passes through no delay node
HasDirectLoop(g) ==
    \E n \in DOMAIN g : g[n].type_name # "t" /\ n \in DelayFreeClosure(g, DelayFreeSources(g, n))

\* C1: the output of every delay in iteration n is the value its input had in iteration
\* n - 1, and its initial_value in the first iteration; this includes the delays that are
\* first reached while the deferred delays are being processed.
C1_DelayOutputsPreviousInput ==
    Compiled =>
        \A t \in NodesOfType("t"), n \in Entries :
            (KeyIndex(OutputKey(t)) # 0 /\ log[n].bits_override = None) =>
                IF n = 1
                THEN log[n].results[KeyIndex(OutputKey(t))] = Graph[t].initial_value
                ELSE (log[n - 1].bits_override = None /\ Known(SourceOf(t))) =>
                         log[n].results[KeyIndex(OutputKey(t))] = ValueAt(SourceOf(t), log[n - 1])

\* A second iteration of a program with a delay that was first reached during the
\* deferred update (the delay behind the output's delay)
C1_SecondIterationOfSeries ==
    /\ Compiled /\ sfg.name = "series" /\ Len(log) >= 2
    /\ KeyIndex(OutputKey("t2")) # 0
    /\ log[1].bits_override = None /\ log[2].bits_override = None
    /\ log[1].inputs[1] # Graph["t2"].initial_value

\* C2: running a compiled program never pushes beyond required_stack_size and never pops an
\* empty stack; required_stack_size is the largest depth the run reaches, and after the last
\* instruction exactly output_count values are left on the stack.
C2_StackDiscipline ==
    /\ outcome.error \notin {"stack_overflow", "stack_underflow"}
    /\ Compiled =>
          \A n \in Entries :
              /\ log[n].hwm = code.required_stack_size
              /\ log[n].stack_pointer = code.output_count
              /\ Len(log[n].stack) = code.output_count
              /\ \A k \in Positions : log[n].trace[k].depth \in 1 .. code.required_stack_size

\* An iteration whose stack grew beyond the outputs it left and shrank again
C2_StackGrewAndDrained ==
    /\ Compiled
    /\ \E n \in Entries :
          /\ log[n].hwm >= 2
          /\ log[n].hwm = code.required_stack_size
          /\ log[n].stack_pointer < log[n].hwm
          /\ log[n].stack_pointer = code.output_count

\* C3: a binary instruction pops its right-hand operand first: for a pushed before b,
\* subtraction leaves a - b and division a / b.
C3_RightOperandPoppedFirst ==
    Compiled =>
        \A n \in Entries, k \in Positions :
            ( /\ code.instructions[k].type \in {"subtraction", "division"}
              /\ k >= 3
              /\ code.instructions[k - 1].type \in PushTypes
              /\ log[n].bits_override = None )
            => log[n].trace[k].top =
                   apply_binary(code.instructions[k].type, log[n].trace[k - 2].top, log[n].trace[k - 1].top)

\* A subtraction or division ran on two different operands
C3_BinaryRan ==
    /\ Compiled
    /\ \E n \in Entries, k \in Positions :
          /\ code.instructions[k].type \in {"subtraction", "division"}
          /\ k >= 3
          /\ code.instructions[k - 1].type \in PushTypes
          /\ log[n].bits_override = None
          /\ log[n].trace[k - 2].top # log[n].trace[k - 1].top

\* C4: the compiled program holds exactly one push_delay(d) and exactly one update_delay(d)
\* for every entry d of the delay table.
C4_OnePushOneUpdatePerDelay ==
    Compiled =>
        \A d \in 0 .. Len(code.delays) - 1 :
            /\ Cardinality(DelayInstructions("push_delay", d)) = 1
            /\ Cardinality(DelayInstructions("update_delay", d)) = 1

\* A compiled program with a delay that was entered in the table during the deferred update
C4_DelayBehindDelayCompiled ==
    /\ Compiled /\ sfg.name = "series"
    /\ Len(code.delays) = 2
    /\ DelayInstructions("push_delay", 1) # {}

\* C5: clear_state puts every delay register back to its initial_value (and leaves the
\* iteration counter and the saved results alone).
C5_ClearStateRestoresInitialValues ==
    (Compiled /\ outcome.op = "clear_state") =>
        Delays = [i \in 1 .. Len(code.delays) |-> code.delays[i].initial_value]

\* clear_state returned on a simulation that has delays and has run
C5_ClearedAfterRunning ==
    /\ Compiled /\ outcome.op = "clear_state" /\ outcome.kind = "returned"
    /\ Len(code.delays) > 0 /\ Len(log) > 0

\* C6, as the specification states it: with quantize = false every quantize instruction is
\* still executed, so the real value under it is masked.
C6_QuantizeExecutedWhenOff ==
    Compiled =>
        \A n \in Entries, k \in Positions :
            (Unquantized(log[n]) /\ code.instructions[k].type = "quantize" /\ k >= 2
                /\ log[n].trace[k - 1].top.im = 0)
            => log[n].trace[k].top =
                   Num(BitAnd(ToInt64(log[n].trace[k - 1].top), code.instructions[k].bit_mask))

\* C6, as the code has it: with quantize = false bits_override is ignored and every
\* quantize instruction leaves the value under it as it is, so the iteration gives what
\* the program gives with no quantization at all.
C6_NothingQuantizedWhenOff ==
    Compiled =>
        \A n \in Entries :
            Unquantized(log[n]) =>
                /\ \A k \in Positions :
                      (code.instructions[k].type = "quantize" /\ k >= 2)
                          => log[n].trace[k].top = log[n].trace[k - 1].top
                /\ \E order \in Orders(code) :
                      LET plain == run_simulation(code, log[n].inputs, log[n].delays_before,
                                                  Len(code.delays), None, FALSE, order, "stale_storage", "count_mod_64")
                      IN /\ plain.results = log[n].results
                         /\ plain.stack = log[n].stack
                         /\ plain.delays = log[n].delays_after

\* An iteration with quantize = false and an override, in which a value wider than the
\* mask of its edge went through a quantize instruction
C6_WideValueWentThrough ==
    /\ Compiled
    /\ \E n \in Entries, k \in Positions :
          /\ Unquantized(log[n]) /\ log[n].bits_override # None
          /\ code.instructions[k].type = "quantize" /\ k >= 2
          /\ log[n].trace[k - 1].top.im = 0
          /\ log[n].trace[k].top #
                 Num(BitAnd(ToInt64(log[n].trace[k - 1].top), code.instructions[k].bit_mask))

\* C7: a signal whose bits attribute is 0 is not quantized: with quantize = true and no
\* override its consumer works on the value its source gave.
C7_ZeroBitsNotQuantized ==
    Compiled =>
        \A c \in ConsumersOver(Some(0)), n \in Entries :
            PerEdge(log[n]) =>
                log[n].results[KeyIndex(OutputKey(c))] = NumConj(ValueAt(SourceOf(c), log[n]))

\* A nonzero value crossed an edge of width 0 with per-edge quantization on
C7_ValueCrossedZeroWidthEdge ==
    /\ Compiled
    /\ \E c \in ConsumersOver(Some(0)), n \in Entries :
          PerEdge(log[n]) /\ ValueAt(SourceOf(c), log[n]) # Num(0)

\* C8: with quantize = true and bits_override = b (1 <= b <= 63) the top of the stack is masked to b bits
\* after every instruction, so every stored result, every output and every delay the
\* program updates is a real integer below 2^b, and the quantize instructions of the edges
\* are bypassed; 5 + 4 under an override of 3 bits gives 1.
C8_OverrideMasksEverything ==
    Compiled =>
        \A n \in Entries :
            (Overridden(log[n]) /\ log[n].bits_override[1] <= 63) =>
                LET b == log[n].bits_override[1] IN
                /\ \A k \in Positions : InRange(log[n].trace[k].top, b)
                /\ \A k \in Positions :
                      (code.instructions[k].type = "quantize" /\ k >= 2)
                          => log[n].trace[k].top = log[n].trace[k - 1].top
                /\ \A r \in 1 .. Len(log[n].results) : InRange(log[n].results[r], b)
                /\ \A o \in 1 .. Len(log[n].stack) : InRange(log[n].stack[o], b)
                /\ \A d \in 0 .. Len(code.delays) - 1 :
                      DelayInstructions("update_delay", d) # {} => InRange(log[n].delays_after[d + 1], b)
                /\ (sfg.name = "const" /\ b = 3) => log[n].stack = <<Num(1)>>

\* 5 + 4 ran under an override and gave something else than 9
C8_SumMasked ==
    /\ Compiled /\ sfg.name = "const"
    /\ \E n \in Entries : Overridden(log[n]) /\ log[n].stack # <<Num(9)>>

\* C9: with quantize = true and no override, a value v crossing an edge of b bits reaches
\* the consumer as int64(v.real) & (2^b - 1); a value with a nonzero imaginary part ends the
\* iteration with ComplexQuantize instead.
C9_PerEdgeQuantization ==
    Compiled =>
        \A b \in 1 .. MaxBits : \A c \in ConsumersOver(Some(b)) :
            /\ \A n \in Entries :
                  PerEdge(log[n]) =>
                      /\ ValueAt(SourceOf(c), log[n]).im = 0
                      /\ log[n].results[KeyIndex(OutputKey(c))] =
                             NumConj(Num(BitAnd(ToInt64(ValueAt(SourceOf(c), log[n])), Pow2(b) - 1)))
            /\ (outcome.at # None /\ outcome.at[1].inputs # <<>> /\ PerEdge(outcome.at[1])
                    /\ Graph[SourceOf(c).operation].type_name = "in")
                => (outcome.error = "ComplexQuantize" <=> ValueAt(SourceOf(c), outcome.at[1]).im # 0)

\* One call in which a value wider than its edge was masked and a complex value then
\* ended the next iteration
C9_MaskedThenComplex ==
    /\ Compiled
    /\ \E b \in 1 .. MaxBits : \E c \in ConsumersOver(Some(b)), n \in Entries :
          /\ PerEdge(log[n])
          /\ ~InRange(ValueAt(SourceOf(c), log[n]), b)
          /\ outcome.error = "ComplexQuantize"
          /\ outcome.at # None /\ PerEdge(outcome.at[1])

\* C10: a compilation that ends (with a program or an exception) ends with
\* DirectFeedbackLoop exactly when the graph has a cycle that passes through no delay.
C10_DirectFeedbackLoopIffCycle ==
    code.status \notin {"none", "crash"} => (HasDirectLoop(Graph) <=> code.status = "DirectFeedbackLoop")

\* Compilation of a graph with a delay-free cycle has ended
C10_CyclicGraphCompiled ==
    code.status \notin {"none", "crash"} /\ HasDirectLoop(Graph)

\* Every node the outputs of the graph depend on, through delays as well
Sources(n) == {Graph[n].inputs[i].source.operation : i \in 1 .. Len(Graph[n].inputs)}
RECURSIVE SourceClosure(_)
SourceClosure(S) ==
    LET T == S \cup UNION {Sources(m) : m \in S}
    IN IF T = S THEN S ELSE SourceClosure(T)
UsedNodes ==
    SourceClosure({Graph["sfg"].output_operations[i] : i \in 1 .. Len(Graph["sfg"].output_operations)})

\* The outputs of the used nodes that something reads, as [operation, index]
UsedOutputs ==
    UNION {{Graph[c].inputs[i].source : i \in 1 .. Len(Graph[c].inputs)} : c \in UsedNodes}
\* The outputs of consumer c that are computed: each computation reads the inputs of c
ComputedOutputs(c) ==
    IF Graph[c].output_count = 0 THEN {0}
    ELSE {x.index : x \in {y \in UsedOutputs : y.operation = c}}
\* The reads of output x: <<consumer, output of the consumer, input of the consumer>>
Reads(x) ==
    {r \in UNION {{<<c, o, i>> : o \in ComputedOutputs(c), i \in 1 .. Len(Graph[c].inputs)} : c \in UsedNodes} :
        Graph[r[1]].inputs[r[3]].source = x}

\* The result slot of output x (0-based), -1 when the output was never compiled
Slot(x) == KeyIndex(key_of_output(Graph[x.operation], x.index, <<>>)) - 1
\* The instructions that end the body of x, and the push_result instructions that re-use it
Body(x) ==
    {k \in Positions : code.instructions[k].result_index = Slot(x) /\ code.instructions[k].type # "push_result"}
Reuses(x) ==
    {k \in Positions : code.instructions[k].type = "push_result" /\ code.instructions[k].index = Slot(x)}

\* C11: an output that is read k >= 2 times has its body emitted exactly once, and every
\* other read is one push_result of its result slot; the outputs of one node that has
\* several outputs have different result slots.
C11_BodyOncePushResultForTheRest ==
    Compiled =>
        /\ \A x \in UsedOutputs :
              Cardinality(Reads(x)) >= 2 =>
                  /\ Slot(x) >= 0
                  /\ Cardinality(Body(x)) = 1
                  /\ Cardinality(Reuses(x)) = Cardinality(Reads(x)) - 1
                  /\ \A k \in Reuses(x) : code.instructions[k].result_index = Slot(x)
        /\ \A x \in UsedOutputs, y \in UsedOutputs :
              (x.operation = y.operation /\ x.index # y.index) => (Slot(x) >= 0 /\ Slot(x) # Slot(y))

\* A compiled program in which an output that four consumers read was re-used
C11_SharedOutputCompiled ==
    /\ Compiled /\ sfg.name = "fanout"
    /\ Cardinality(Reads([operation |-> "in0", index |-> 0])) = 4
    /\ Reuses([operation |-> "in0", index |-> 0]) # {}

\* What a read of delay d gives in a logged iteration: the value the register had when the
\* iteration began, masked as every result is when bits_override is active
Seen(entry, d) ==
    IF Overridden(entry)
    THEN Num(BitAnd(ToInt64(entry.delays_before[d + 1]), entry.bit_mask_override))
    ELSE entry.delays_before[d + 1]
\* The instructions that read delay d: its push_delay and the push_result of its slot
DelayReads(d) ==
    {k \in Positions :
        \/ code.instructions[k].type = "push_delay" /\ code.instructions[k].index = d
        \/ code.instructions[k].type = "push_result"
               /\ code.instructions[k].index = code.delays[d + 1].result_index}

Called(op) == calls' = calls + 1 /\ outcome'.op = op
\* The log after the step is the log before it and count more iterations, numbered on from
\* m_iteration, each run on what the input providers give for its number
Appended(count) ==
    /\ Len(log') = Len(log) + count
    /\ SubSeq(log', 1, Len(log)) = log
    /\ \A j \in 1 .. count :
          /\ log'[Len(log) + j].iteration = m_iteration + j - 1
          /\ \A i \in 1 .. Len(m_input_functions) :
                log'[Len(log) + j].inputs[i] = CallInput(m_input_functions[i], m_iteration + j - 1).value
\* What run_until(target), called as op, has to leave behind (target below 2^16)
RunUntilDone(op, target) ==
    IF m_iteration >= target.lo
    THEN /\ outcome' = Returned(op, <<>>)
         /\ UNCHANGED <<m_delays, m_iteration, m_results, m_input_functions, m_input_length, log>>
    ELSE outcome'.kind = "returned" =>
             /\ m_iteration' = target.lo
             /\ Appended(target.lo - m_iteration)
             /\ outcome'.value = log'[Len(log')].stack

\* C13: run_until(target) runs nothing, returns an empty vector and changes no state when
\* iteration >= target; otherwise (no iteration failing) it runs exactly target - iteration
\* iterations in increasing order, each provider called with the number of the iteration,
\* leaves iteration = target and returns the outputs of the last iteration.  No operation
\* ever decreases iteration.
C13_RunUntil ==
    [][/\ m_iteration' >= m_iteration
       /\ Called("run_until") =>
              \A iteration \in RunUntilChoices, args \in ArgChoices :
                  RunUntilCall("run_until", iteration, args) => RunUntilDone("run_until", iteration)]_vars

\* run_until(2) ran two iterations on inputs that differ from one iteration to the next
C13_TwoIterationsRun ==
    /\ outcome.op = "run_until" /\ outcome.kind = "returned"
    /\ calls = 2 /\ m_iteration = 2 /\ Len(log) = 2
    /\ log[1].inputs # log[2].inputs
    /\ outcome.value = log[2].stack

\* The arguments the call of this step can have been made with: those of the iterations it
\* completed and of the iteration it failed in (every choice, if it ran nothing)
ArgsOfCall ==
    {args \in StepChoices :
        /\ \A j \in Len(log) + 1 .. Len(log') :
               /\ log'[j].save_results = args.save_results
               /\ log'[j].quantize = args.quantize
               /\ log'[j].bits_override = args.bits_override
        /\ outcome'.at # None =>
               /\ outcome'.at[1].quantize = args.quantize
               /\ outcome'.at[1].bits_override = args.bits_override}
\* n + iteration is above the largest value of the 32-bit iteration type
\* (the sum of the high halves and the carry of the low halves does not fit 16 bits)
Exceeds(n) == n.hi + U32(m_iteration).hi + (n.lo + U32(m_iteration).lo) \div 65536 > 65535
\* What run_for(n) has to leave behind (n below 2^16 when it does not overflow)
RunForDone(op, n) ==
    IF Exceeds(n)
    THEN /\ outcome' = Raised(op, "IterationOverflow")
         /\ UNCHANGED <<m_delays, m_iteration, m_results, m_input_functions, m_input_length, log>>
    ELSE /\ outcome'.error # "IterationOverflow"
         /\ outcome'.kind = "returned" =>
                /\ m_iteration' = m_iteration + n.lo
                /\ Appended(n.lo)
                /\ outcome'.value = log'[Len(log')].stack

\* C14: run_for(n), and step() as run_for(1), fails with IterationOverflow exactly when
\* n + iteration exceeds the largest 32-bit unsigned value, and then nothing has changed;
\* otherwise (no iteration failing) it runs exactly n iterations.
C14_RunFor ==
    [][/\ Called("run_for") =>
              \A iterations \in RunForChoices, args \in ArgsOfCall :
                  run_for("run_for", iterations, args) => RunForDone("run_for", iterations)
       /\ Called("step") =>
              \A args \in ArgsOfCall : run_for("step", U32(1), args) => RunForDone("step", U32(1))]_vars

\* After one iteration, run_for(2^32 - 1) was refused
C14_OverflowRefused ==
    /\ outcome = Raised("run_for", "IterationOverflow")
    /\ m_iteration = 1 /\ Len(log) = 1

\* The iterations the step ran or tried: none reads a bound sequence at or past its end
ReadsInRange ==
    \A i \in 1 .. Len(m_input_functions) :
        m_input_functions[i].kind = "list" =>
            /\ \A j \in Len(log) + 1 .. Len(log') : log'[j].iteration < Len(m_input_functions[i].values)
            /\ outcome'.at # None => outcome'.at[1].iteration < Len(m_input_functions[i].values)

\* C15: run() fails with UnlimitedRun and changes no state when no fixed-length sequence has
\* been bound (input_length unset); otherwise it behaves as run_until(input_length): when it
\* returns, iteration >= input_length, and during the call no bound sequence is read at an
\* index at or past its length.
C15_Run ==
    [][Called("run") =>
          IF m_input_length = None
          THEN /\ outcome' = Raised("run", "UnlimitedRun")
               /\ UNCHANGED <<m_delays, m_iteration, m_results, m_input_functions, m_input_length, log>>
          ELSE /\ outcome'.error \notin {"UnlimitedRun", "out_of_range"}
               /\ ReadsInRange
               /\ RunUntilDone("run", U32(m_input_length[1]))
               /\ outcome'.kind = "returned" => m_iteration' >= m_input_length[1]]_vars

\* run() went through a bound sequence of two values and stopped at its end
C15_RanToTheEnd ==
    /\ outcome.op = "run" /\ outcome.kind = "returned"
    /\ m_input_length = Some(2) /\ m_iteration = 2 /\ Len(log) = 2
    /\ \E i \in 1 .. Len(m_input_functions) :
          /\ m_input_functions[i].kind = "list"
          /\ log[1].inputs[i] = m_input_functions[i].values[1]
          /\ log[2].inputs[i] = m_input_functions[i].values[2]

\* What set_input(i, p) has to leave behind
SetInputDone(i, p) ==
    IF i >= code.input_count
    THEN /\ outcome' = Raised("set_input", "InputIndexOutOfRange")
         /\ UNCHANGED <<m_input_functions, m_input_length>>
    ELSE IF p.kind = "list" /\ m_input_length # None /\ m_input_length # Some(Len(p.values))
    THEN /\ outcome' = Raised("set_input", "InconsistentInputLength")
         /\ UNCHANGED <<m_input_functions, m_input_length>>
    ELSE /\ outcome' = Returned("set_input", <<>>)
         /\ m_input_functions' = [m_input_functions EXCEPT ![i + 1] = p]
         /\ m_input_length' = IF p.kind = "list" /\ m_input_length = None THEN Some(Len(p.values))
                              ELSE m_input_length
\* Every bound fixed-length sequence has input_length values
BoundSequencesHaveInputLength ==
    \A i \in 1 .. Len(m_input_functions) :
        m_input_functions[i].kind = "list" => m_input_length = Some(Len(m_input_functions[i].values))

\* C16: set_input(i, p) fails with InputIndexOutOfRange when i >= input_count; binding a
\* sequence sets input_length when it is unset and otherwise fails with
\* InconsistentInputLength when the lengths differ; on either failure the provider of input i
\* and input_length are unchanged.  So in every reachable state every bound fixed-length
\* sequence has length input_length.
C16_SetInput ==
    /\ []BoundSequencesHaveInputLength
    /\ [][Called("set_input") =>
              \A index \in 0 .. Len(m_input_functions), input_provider \in InputProviders :
                  input_set(set_input(index, input_provider)) => SetInputDone(index, input_provider)]_vars

\* A sequence of another length was refused for an input that keeps its sequence
C16_OtherLengthRefused ==
    /\ outcome = Raised("set_input", "InconsistentInputLength")
    /\ m_input_length # None
    /\ \E i \in 1 .. Len(m_input_functions) : m_input_functions[i].kind = "list"

\* Entry i of the list was bound as set_input binds it: the provider is the entry, a sequence
\* has input_length values, and input_length is otherwise what it was
BoundAsSetInput(entry, i) ==
    /\ m_input_functions'[i] = entry
    /\ entry.kind = "list" => m_input_length' = Some(Len(entry.values))
    /\ bind(m_input_functions', m_input_length', i - 1, entry) =
           [fault |-> "none", functions |-> m_input_functions', length |-> m_input_length']
\* What set_inputs(list) has to leave behind
SetInputsDone(list) ==
    IF Len(list) # code.input_count
    THEN /\ outcome' = Raised("set_inputs", "WrongNumberOfInputs")
         /\ UNCHANGED <<m_input_functions, m_input_length>>
    ELSE /\ \A i \in 1 .. Len(list) : list[i] = None => m_input_functions'[i] = m_input_functions[i]
         /\ outcome'.kind = "returned" =>
                /\ \A i \in 1 .. Len(list) : list[i] # None => BoundAsSetInput(list[i][1], i)
                /\ m_input_length # None \/ (\A i \in 1 .. Len(list) : list[i] = None \/ list[i][1].kind # "list")
                       => m_input_length' = m_input_length
         \* a failure is that of set_input for one entry: the entries before it are bound, that
         \* entry and the ones after it are not
         /\ outcome'.kind # "returned" =>
                /\ outcome' = Raised("set_inputs", "InconsistentInputLength")
                /\ \E k \in 1 .. Len(list) :
                      /\ list[k] # None
                      /\ bind(m_input_functions', m_input_length', k - 1, list[k][1]).fault =
                             "InconsistentInputLength"
                      /\ \A i \in 1 .. k - 1 : list[i] # None => BoundAsSetInput(list[i][1], i)
                      /\ \A i \in k .. Len(list) : m_input_functions'[i] = m_input_functions[i]

\* C17: set_inputs(list) fails without changing any provider when the list's length differs
\* from input_count; otherwise every None entry leaves the provider bound to that input
\* unchanged, and every non-None entry i is bound as set_input(i, entry) binds it (a failure
\* of set_input for an entry ends the call).
C17_SetInputs ==
    [][Called("set_inputs") =>
          \A input_providers \in InputLists(Len(m_input_functions)) :
              inputs_set(set_inputs(input_providers)) => SetInputsDone(input_providers)]_vars

\* set_inputs([None, sequence]) after set_input(0, 2+i): the constant is still bound to input 0
\* and the sequence is bound to input 1
C17_NoneKeptTheProvider ==
    /\ outcome = Returned("set_inputs", <<>>)
    /\ calls = 2
    /\ Len(m_input_functions) = 2
    /\ m_input_functions[1] = ConstantInput(Cplx(2, 1))
    /\ m_input_functions[2] = ListInput(<<Num(5), Num(6), Num(7)>>)
    /\ m_input_length = Some(3)

\* The snapshots of the iterations the step ran with save enabled, in the order they ran
Saved(entries) == [t \in 1 .. Len(entries) |-> entries[t].results]
NewlySaved == Saved(SelectSeq(SubSeq(log', Len(log) + 1, Len(log')), LAMBDA entry : entry.save_results))
\* The history is emptied by clear_results and grows by the saved iterations of any other step
HistoryKept ==
    IF calls' = calls + 1 /\ outcome'.op = "clear_results" THEN m_results' = <<>>
    ELSE m_results' = m_results \o NewlySaved
\* results() has every result key, with the column of the history at the key's index
EveryKeyHasItsColumn ==
    \A i \in 1 .. Len(code.result_keys) :
        /\ code.result_keys[i] \in DOMAIN results
        /\ Len(results[code.result_keys[i]]) = Len(m_results)
        /\ \A t \in 1 .. Len(m_results) : results[code.result_keys[i]][t] = m_results[t][i]

\* C18 as amended: the history holds the snapshots of the iterations run with save enabled
\* since construction or the last clear_results, in iteration order (iterations run with
\* save=false add nothing); when it holds at least one, results() returns for every result key
\* k at index i the sequence [history[t][i]], every key present and all sequences of the
\* length of the history; when it holds none, results() is empty and no key is present.
C18_ResultsAreTheColumnsOfWhatWasSaved ==
    /\ [](Compiled => IF m_results = <<>> THEN DOMAIN results = {} ELSE EveryKeyHasItsColumn)
    /\ [][HistoryKept]_vars

\* Two iterations ran, the first saved and the second not: one value per key
C18_OneOfTwoSaved ==
    /\ Compiled
    /\ Len(log) = 2 /\ log[1].save_results /\ ~log[2].save_results
    /\ Len(m_results) = 1
    /\ \A key \in DOMAIN results : Len(results[key]) = 1

\* C18 as stated: every result key is present in results() and all sequences have the same
\* length, equal to the number of saved iterations
C18_EveryKeyPresent == Compiled => EveryKeyHasItsColumn

\* The step is a call that an iteration ended with an exception
IterationFailed == calls' = calls + 1 /\ outcome'.kind = "raised" /\ outcome'.at # None

\* C19: when an iteration fails at runtime inside step/run_for/run_until/run, the call ends
\* with the failure; the snapshots of all earlier iterations, those of the same call included,
\* are in the history unchanged, none is added for the failed iteration, and iteration counts
\* exactly the iterations that completed.
C19_FailedIterationLeavesTheRest ==
    /\ [](m_iteration = Len(log))
    /\ [][IterationFailed =>
              /\ outcome'.op \in {"step", "run_for", "run_until", "run"}
              /\ outcome'.value = <<>>
              /\ m_results' = m_results \o NewlySaved
              /\ m_iteration' = m_iteration + (Len(log') - Len(log))
              /\ outcome'.at[1].iteration = m_iteration']_vars

\* run() completed and saved iteration 0 and failed in iteration 1
C19_SecondIterationFailed ==
    /\ outcome.op = "run" /\ outcome.kind = "raised"
    /\ outcome.at # None /\ outcome.at[1].iteration = 1
    /\ m_iteration = 1 /\ Len(log) = 1 /\ Len(m_results) = 1
    /\ m_results[1] = log[1].results

\* The members of a freshly constructed driver for the same program, as run_until takes them
FreshDriver ==
    [m_delays |-> [size |-> Len(code.delays),
                   data |-> [i \in 1 .. Len(code.delays) |-> code.delays[i].initial_value]],
     m_iteration |-> 0, m_results |-> <<>>, log |-> <<>>, fault |-> "none", result |-> <<>>, at |-> None,
     shift |-> "count_mod_64"]
\* n iterations in one call on a fresh driver with the providers that are bound now
InOneCall(n, bits_override, quantize, order) ==
    run_until(FreshDriver, U32(n), Args(TRUE, bits_override, quantize), order, "assert_abort")
\* Every input has a constant bound, and the iterations so far ran with these arguments
ConstantInputs == \A i \in 1 .. Len(m_input_functions) : m_input_functions[i].kind = "constant"
RanWith(entries, bits_override, quantize) ==
    \A j \in 1 .. Len(entries) : entries[j].bits_override = bits_override /\ entries[j].quantize = quantize
\* The driver is where a fresh driver is after k >= 1 iterations: registers and snapshots
RanSoFar(bits_override, quantize, order) ==
    /\ Compiled /\ Len(code.delays) >= 1 /\ ConstantInputs
    /\ Len(log) >= 1 /\ m_iteration = Len(log)
    /\ RanWith(log, bits_override, quantize)
    /\ m_delays = InOneCall(Len(log), bits_override, quantize, order).m_delays
    /\ Saved(log) = Saved(InOneCall(Len(log), bits_override, quantize, order).log)
\* The step ran m >= 1 more iterations with the same arguments and returned
RanMore(bits_override, quantize) ==
    /\ calls' = calls + 1 /\ outcome'.kind = "returned"
    /\ Len(log') > Len(log)
    /\ RanWith(log', bits_override, quantize)
\* After the step the driver is where a fresh driver is after k + m iterations in one call
AsInOneCall(f) ==
    /\ f.fault = "none"
    /\ m_iteration' = f.m_iteration
    /\ outcome'.value = f.result
    /\ m_delays' = f.m_delays
    /\ Saved(log') = Saved(f.log)

\* C20: for a graph with delays and constant inputs, and fixed quantize/bits_override
\* arguments, running k iterations and then m more on one driver yields the same final
\* outputs, delay registers and per-iteration result snapshots as running k+m iterations in
\* one call on a freshly constructed driver.
C20_SplitRunEqualsOneRun ==
    [][\A args \in ArgChoices, order \in OperandOrders :
          RanMore(args.bits_override, args.quantize) /\ RanSoFar(args.bits_override, args.quantize, order)
              => AsInOneCall(InOneCall(Len(log'), args.bits_override, args.quantize, order))]_vars

\* The counter ran one iteration in one call and two more in the next, its register changing
C20_OneThenTwoMore ==
    /\ Compiled /\ sfg.name = "counter"
    /\ calls = 2 /\ outcome.op = "run_for" /\ outcome.kind = "returned"
    /\ Len(log) = 3
    /\ RanWith(log, log[1].bits_override, log[1].quantize)
    /\ log[1].delays_before # log[2].delays_before
    /\ log[2].delays_before # log[3].delays_before

\* The step is run() on the unit delay in0 -> t1(0) -> out0, freshly constructed, with the
\* sequence [5, 6, 7] bound to in0, and it returned
UnitDelayRan ==
    /\ Compiled /\ sfg.name = "delay"
    /\ m_input_functions = <<ListInput(<<Num(5), Num(6), Num(7)>>)>>
    /\ m_iteration = 0 /\ m_results = <<>> /\ Delays = <<Num(0)>>
    /\ Called("run") /\ outcome'.kind = "returned"
\* The history recorded under key, when the iterations of the step were saved
HistoryOf(key, values) == log'[1].save_results => (key \in DOMAIN results' /\ results'[key] = values)

\* C21 as amended: for the graph in0 -> t(initial=0) -> out with the input sequence [5, 6, 7]
\* bound to in0, run() returns [6], the register's value in the last iteration, and the
\* history recorded under the delay's key is [0, 5, 6].
C21_UnitDelayReturnsSix ==
    [][UnitDelayRan => /\ outcome'.value = <<Num(6)>>
                       /\ m_iteration' = 3
                       /\ HistoryOf(<<"t1">>, <<Num(0), Num(5), Num(6)>>)]_vars

\* run() went through [5, 6, 7] on the unit delay, saving every iteration
C21_UnitDelayAfterRun ==
    /\ Compiled /\ sfg.name = "delay"
    /\ m_input_functions = <<ListInput(<<Num(5), Num(6), Num(7)>>)>>
    /\ outcome.op = "run" /\ outcome.kind = "returned" /\ calls = 2
    /\ Len(log) = 3 /\ Len(m_results) = 3
    /\ results[<<"t1">>] = <<Num(0), Num(5), Num(6)>>

\* C21 as stated: run() returns [7] and the history under the delay's key is [0, 5, 6]
C21_UnitDelayReturnsSeven ==
    [][UnitDelayRan => /\ outcome'.value = <<Num(7)>>
                       /\ HistoryOf(<<"t1">>, <<Num(0), Num(5), Num(6)>>)]_vars

\* The key of output i of node n at the top level, and what an iteration recorded under it
KeyOf(n, i) == key_of_output(Graph[n], i, <<>>)
Recorded(entry, n, i) == entry.results[KeyIndex(KeyOf(n, i))]

\* C22: for a butterfly node with input 0 = a and input 1 = b, output 0 evaluates to a + b and
\* output 1 to a - b, recorded under the keys '<graph_id>.0' and '<graph_id>.1'; with the
\* constants 3 and 4 wired to two top-level outputs, step returns [7, -1].
C22_ButterflySumAndDifference ==
    Compiled =>
        \A n \in NodesOfType("bfly"), e \in Entries :
            log[e].bits_override = None =>
                /\ KeyOf(n, 0) = <<Graph[n].graph_id, ".", "0">> /\ KeyIndex(KeyOf(n, 0)) # 0
                /\ KeyOf(n, 1) = <<Graph[n].graph_id, ".", "1">> /\ KeyIndex(KeyOf(n, 1)) # 0
                /\ Recorded(log[e], n, 0) =
                       NumAdd(ValueAt(Graph[n].inputs[1].source, log[e]), ValueAt(Graph[n].inputs[2].source, log[e]))
                /\ Recorded(log[e], n, 1) =
                       NumSub(ValueAt(Graph[n].inputs[1].source, log[e]), ValueAt(Graph[n].inputs[2].source, log[e]))
                /\ sfg.name = "bfly" => log[e].stack = <<Num(7), Num(-1)>>

\* The butterfly of 3 and 4 ran one iteration without an override
C22_ButterflyRan ==
    /\ Compiled /\ sfg.name = "bfly"
    /\ outcome.op = "step" /\ outcome.kind = "returned"
    /\ Len(log) = 1 /\ log[1].bits_override = None
    /\ Recorded(log[1], "bfly1", 0) = Num(7)

\* The calls that run iterations
RunOperations == {"step", "run_for", "run_until", "run"}
\* The key of top-level output i, and the node wired to it
OutputKeyOf(i) == key_of_output(Graph["sfg"], i, <<>>)
WiredTo(i) == Graph[Graph["sfg"].output_operations[i + 1]].inputs[1]
\* The vector is the outputs of the iteration entry, in order
OutputsOf(vector, entry) ==
    /\ Len(vector) = code.output_count
    /\ \A i \in 0 .. code.output_count - 1 :
          /\ KeyIndex(OutputKeyOf(i)) # 0
          /\ vector[i + 1] = entry.results[KeyIndex(OutputKeyOf(i))]
          /\ (WiredTo(i).bits = None /\ Known(WiredTo(i).source) /\ ~Overridden(entry))
                 => vector[i + 1] = ValueAt(WiredTo(i).source, entry)

\* C23: the vector returned by step/run_for/run_until/run after at least one executed
\* iteration has length output_count and its element i is the value of top-level output i in
\* the last executed iteration; for in0 + in1 -> out with inputs 3 and 4, step returns [7] and
\* the add's key maps to [7].
C23_ReturnsTheOutputs ==
    [][(Compiled /\ calls' = calls + 1 /\ outcome'.op \in RunOperations /\ outcome'.kind = "returned"
          /\ Len(log') > Len(log))
       => /\ OutputsOf(outcome'.value, log'[Len(log')])
          /\ ( /\ sfg.name = "add" /\ outcome'.op = "step" /\ m_results = <<>>
               /\ m_input_functions = <<ConstantInput(Num(3)), ConstantInput(Num(4))>> )
             => /\ outcome'.value = <<Num(7)>>
                /\ HistoryOf(<<"add1">>, <<Num(7)>>)]_vars

\* step() on in0 + in1 -> out0 with the inputs 3 and 4 returned [7] and saved one iteration
C23_ThreePlusFour ==
    /\ Compiled /\ sfg.name = "add"
    /\ m_input_functions = <<ConstantInput(Num(3)), ConstantInput(Num(4))>>
    /\ outcome = Returned("step", <<Num(7)>>)
    /\ Len(log) = 1 /\ Len(m_results) = 1
    /\ results[<<"add1">>] = <<Num(7)>>

\* The value on the consumer side of the input edge of the conj node c in an iteration: the
\* consumer's recorded result is its conjugate
ConsumerSide(c, entry) == NumConj(entry.results[KeyIndex(OutputKey(c))])

\* C24 as amended: for a signal with bits = b (1 <= b), in an iteration run with
\* quantize = true and no override, the value on the consumer side has imag = 0 and a real
\* part that is an integer in [0, 2^b): the masked integer itself, not reinterpreted as signed.
C24_ConsumerSideIsUnsigned ==
    Compiled =>
        \A b \in 1 .. MaxBits : \A c \in ConsumersOver(Some(b)) : \A n \in Entries :
            PerEdge(log[n]) =>
                /\ InRange(ConsumerSide(c, log[n]), b)
                /\ (ConsumerSide(c, log[n]).re - ToInt64(ValueAt(SourceOf(c), log[n]))) % Pow2(b) = 0

\* A value crossed an edge of b bits and arrived as an integer of 2^(b-1) or more
C24_UpperHalfArrived ==
    /\ Compiled
    /\ \E b \in 1 .. MaxBits : \E c \in ConsumersOver(Some(b)), n \in Entries :
          /\ PerEdge(log[n])
          /\ ConsumerSide(c, log[n]).re >= Pow2(b - 1)

\* C24 as stated: the value on the consumer side of a signal with bits = b has imag = 0 and a
\* real part in [-2^(b-1), 2^(b-1))
C24_ConsumerSideIsSigned ==
    Compiled =>
        \A b \in 1 .. MaxBits : \A c \in ConsumersOver(Some(b)) : \A n \in Entries :
            PerEdge(log[n]) =>
                /\ ConsumerSide(c, log[n]).im = 0
                /\ -Pow2(b - 1) * ConsumerSide(c, log[n]).den <= ConsumerSide(c, log[n]).re
                /\ ConsumerSide(c, log[n]).re < Pow2(b - 1) * ConsumerSide(c, log[n]).den

\* The min and max nodes, and the value of input i (1 or 2) of node n in an iteration
Ordering == NodesOfType("min") \cup NodesOfType("max")
Operand(n, i, entry) == ValueAt(Graph[n].inputs[i].source, entry)
\* The smaller and the larger of two real numbers, as a real number
Smaller(a, b) == IF a.re * b.den <= b.re * a.den THEN a ELSE b
Larger(a, b) == IF a.re * b.den >= b.re * a.den THEN a ELSE b
\* The operands of n in the iteration that failed, where the inputs of the graph tell
\* (an input, or a constant)
GivenOperand(n, i, at) ==
    IF Graph[Graph[n].inputs[i].source.operation].type_name = "in"
    THEN at.inputs[InputIndex(Graph[n].inputs[i].source.operation)]
    ELSE Graph[Graph[n].inputs[i].source.operation].value

\* C25: executing Min or Max fails with ComplexOrder when either operand has a non-zero
\* imaginary part, and otherwise pushes the smaller (resp. larger) of the two real parts as a
\* real number.
C25_MinMax ==
    Compiled =>
        \A n \in Ordering :
            /\ \A e \in Entries :
                  ~Overridden(log[e]) =>
                      /\ Operand(n, 1, log[e]).im = 0 /\ Operand(n, 2, log[e]).im = 0
                      /\ Recorded(log[e], n, 0) =
                             IF Graph[n].type_name = "min"
                             THEN Smaller(Operand(n, 1, log[e]), Operand(n, 2, log[e]))
                             ELSE Larger(Operand(n, 1, log[e]), Operand(n, 2, log[e]))
            /\ (outcome.at # None /\ outcome.at[1].inputs # <<>> /\ ~Overridden(outcome.at[1]))
                   => (outcome.error = "ComplexOrder"
                          <=> GivenOperand(n, 1, outcome.at[1]).im # 0 \/ GivenOperand(n, 2, outcome.at[1]).im # 0)

\* One call in which max(4, in0) gave the constant for a smaller input and then failed on a
\* complex input
C25_OrderedThenComplex ==
    /\ Compiled /\ sfg.name = "max"
    /\ outcome.error = "ComplexOrder" /\ outcome.at # None
    /\ GivenOperand("max1", 2, outcome.at[1]).im # 0
    /\ \E e \in Entries : ~Overridden(log[e]) /\ Operand("max1", 2, log[e]) = Num(-3)
                          /\ Recorded(log[e], "max1", 0) = Num(4)

\* The nodes of the graph, the SFG nodes among them, and the nodes an SFG holds: those
\* its inputs and outputs reach along the edges (a nested SFG counts as one node)
NodeNames == DOMAIN Graph \ {"sfg"}
RECURSIVE Upstream(_)
Upstream(S) ==
    LET next == S \cup UNION {{Graph[n].inputs[k].source.operation :
                                   k \in 1 .. Len(Graph[n].inputs)} : n \in S} IN
    IF next = S THEN S ELSE Upstream(next)
Members(s) ==
    Upstream({Graph[s].output_operations[k] : k \in 1 .. Len(Graph[s].output_operations)}
             \cup {Graph[s].input_operations[k] : k \in 1 .. Len(Graph[s].input_operations)})
\* graph_ids are unique within each SFG
UniqueIds ==
    \A s \in NodesOfType("sfg") : \A n, m \in Members(s) :
        Graph[n].graph_id = Graph[m].graph_id => n = m
\* The dotted graph_ids of the nested SFGs that enclose node n, outermost first
RECURSIVE PathOf(_)
PathOf(n) ==
    IF n \in Members("sfg") THEN <<>>
    ELSE LET s == CHOOSE s \in NodesOfType("sfg") \ {"sfg"} : n \in Members(s) IN
         IF PathOf(s) = <<>> THEN <<Graph[s].graph_id>>
         ELSE PathOf(s) \o <<".", Graph[s].graph_id>>
\* The key the claim gives output i of node n
ExpectedKey(n, i) ==
    LET base == IF n = "sfg" THEN <<>>
                ELSE IF PathOf(n) = <<>> THEN <<Graph[n].graph_id>>
                ELSE PathOf(n) \o <<".", Graph[n].graph_id>> IN
    IF base = <<>> THEN <<ToString(i)>>
    ELSE IF Graph[n].output_count > 1 THEN base \o <<".", ToString(i)>>
    ELSE base
ExpectedKeys ==
    UNION {{ExpectedKey(n, i) : i \in 0 .. Graph[n].output_count - 1} : n \in DOMAIN Graph}

\* C26: given graph_ids unique within each SFG, the result keys of a compiled graph are
\* pairwise distinct, and each is the dotted path of the graph_ids of the nested SFGs that
\* enclose a node followed by the node's graph_id, with '.<output_index>' appended exactly
\* when the node has more than one output (the bare index when the path is empty).
C26_KeysAreDottedPaths ==
    (Compiled /\ UniqueIds) =>
        /\ \A i, j \in 1 .. Len(code.result_keys) :
               code.result_keys[i] = code.result_keys[j] => i = j
        /\ \A i \in 1 .. Len(code.result_keys) : code.result_keys[i] \in ExpectedKeys

\* A graph with a nested SFG was compiled, and a node inside the nested SFG has a key
C26_NestedCompiled ==
    /\ Compiled /\ UniqueIds
    /\ \E n \in NodeNames : PathOf(n) # <<>> /\ KeyIndex(ExpectedKey(n, 0)) # 0
    /\ \E i \in 1 .. Len(code.result_keys) : code.result_keys[i] = <<"c3">>

\* The instructions whose result is not stored
IgnoredResultTypes == {"quantize", "update_delay"}
\* The result slots, counted from 0 as result_index counts them
Slots == 0 .. Len(code.result_keys) - 1

\* C27: in every compiled program each instruction's result_index is at most |result_keys|,
\* it equals |result_keys| exactly for the quantize and update_delay instructions, and
\* every slot below |result_keys| is the result_index of at least one instruction.
C27_ResultIndicesCoverTheSlots ==
    Compiled =>
        /\ \A k \in Positions :
               /\ code.instructions[k].result_index <= Len(code.result_keys)
               /\ code.instructions[k].result_index = Len(code.result_keys)
                      <=> code.instructions[k].type \in IgnoredResultTypes
        /\ \A i \in Slots : \E k \in Positions : code.instructions[k].result_index = i

\* A compiled program holds an update_delay next to result-storing instructions, and
\* some slot is the result_index of two instructions
C27_IgnoredAndSharedSlots ==
    /\ Compiled
    /\ \E k \in Positions : code.instructions[k].type = "update_delay"
    /\ \E i \in Slots : \E k, l \in Positions :
           /\ k # l
           /\ code.instructions[k].result_index = i /\ code.instructions[l].result_index = i
    /\ \E k \in Positions : code.instructions[k].result_index < Len(code.result_keys)

\* Some signal of the graph carries a width above 64 bits
WideSignal ==
    \E n \in NodeNames : \E k \in 1 .. Len(Graph[n].inputs) :
        Graph[n].inputs[k].bits # None /\ Graph[n].inputs[k].bits[1] > 64
\* The arguments ask for an override above 64 bits
TooWide(args) == args.quantize /\ args.bits_override # None /\ args.bits_override[1] > 64
\* run_until(target) gets as far as the interpreter's preparation: there is an iteration to
\* run, the providers give its inputs, and the assertions on entry hold
Attempts(target) ==
    /\ U32Less(U32(m_iteration), target)
    /\ \A i \in 1 .. Len(m_input_functions) : gather(m_iteration)[i].fault = "none"
    /\ Preconditions(code, input_values(gather(m_iteration)), m_delays.size)
\* The call changed nothing, and failed if it got as far as the interpreter
Refused(target) ==
    /\ UNCHANGED <<m_delays, m_iteration, m_results, log>>
    /\ Attempts(target) => outcome'.kind = "raised" /\ outcome'.error = "QuantizationTooWide"

CustomAt == {k \in Positions : code.instructions[k].type = "custom"}
CustomSource(k) == code.custom_sources[code.instructions[k].index + 1]
CustomOperation(k) == code.custom_operations[CustomSource(k).custom_operation_index + 1]
PushedBefore(k) ==
    \A i \in 1 .. CustomOperation(k).input_count :
        k - i >= 1 /\ code.instructions[k - i].type \in PushTypes
PoppedAt(entry, k) == [i \in 1 .. CustomOperation(k).input_count |-> entry.trace[k - i].top]
DepthBefore(entry, k) == IF k = 1 THEN 0 ELSE entry.trace[k - 1].depth

\* C29: a custom instruction pops exactly input_count values of its custom operation, hands
\* them to the callable with the value popped first (the top of the stack) as element 0,
\* together with the output_index of its custom source, and pushes the one value returned:
\* the stack depth changes by 1 - input_count, which is what the compiler accounted for
\* (the depth never passes required_stack_size and ends at output_count).
C29_CustomPopsAndPushes ==
    Compiled =>
        \A e \in Entries : \A k \in CustomAt :
            /\ log[e].trace[k].depth = DepthBefore(log[e], k) + 1 - CustomOperation(k).input_count
            /\ log[e].hwm = code.required_stack_size
            /\ log[e].stack_pointer = code.output_count
            /\ (log[e].bits_override = None /\ PushedBefore(k)) =>
                   log[e].trace[k].top =
                       evaluate_output(CustomOperation(k).evaluate_output, CustomSource(k).output_index,
                                       PoppedAt(log[e], k))
            /\ sfg.name = "custom" /\ log[e].bits_override = None =>
                   log[e].stack = <<Num(1 * 4 + 2 * 3 + 0), Num(1 * 4 + 2 * 3 + 1)>>

\* The graph with the custom operation ran: both custom instructions popped two different
\* values and the outputs differ by the output_index
C29_CustomRan ==
    /\ Compiled /\ sfg.name = "custom" /\ Len(log) >= 1 /\ log[1].bits_override = None
    /\ Cardinality(CustomAt) = 2
    /\ \A k \in CustomAt : PushedBefore(k) /\ CustomOperation(k).input_count = 2
                           /\ log[1].trace[k - 1].top # log[1].trace[k - 2].top
    /\ log[1].stack = <<Num(10), Num(11)>>

\* The simulation_code a second compilation of the same graph yields on the build whose
\* vector grows by growth and that shifts 1 << 64 as the first compilation did, when its
\* reads of the reallocated queue do as dangling says
Recompiled(growth, dangling) ==
    compile(Graph, growth, dangling,
            IF \E i \in Positions : code.instructions[i].type = "quantize" /\ code.instructions[i].bit_mask = -1
            THEN "zero" ELSE "count_mod_64")

\* C30: compiling the same graph twice yields identical compiled code: whatever build
\* produced the code of the first compilation, a second compilation on that build gives
\* the same instructions, tables, result keys, counts and required_stack_size.
C30_CompilationRepeats ==
    Compiled =>
        \A growth \in GrowthPolicies :
            (\E first \in DanglingOutcomes : Recompiled(growth, first) = code)
                => \A second \in DanglingOutcomes : Recompiled(growth, second) = code

\* A graph whose compilation reads the deferred-delay queue after it was reallocated was
\* compiled, and compiled to a program with delays
C30_CompiledThroughReallocation ==
    /\ Compiled /\ Len(code.delays) >= 2
    /\ \E growth \in GrowthPolicies :
           /\ Recompiled(growth, "moved_from") = code
           /\ Recompiled(growth, "fault") # code

\* The call of this step got as far as run_simulation: it completed an iteration, or it
\* failed in one whose inputs the providers had given
InterpreterCalled ==
    \/ Len(log') > Len(log)
    \/ outcome'.at # None /\ outcome'.error # "out_of_range"

\* C31: after any sequence of driver operations, every call the driver makes to the
\* interpreter satisfies the assertions at its entry: the inputs vector has length
\* input_count, the delay-register vector has as many elements as there are compiled
\* delays, and output_count <= required_stack_size.
C31_InterpreterPreconditionsHold ==
    [][\A op \in RunOperations :
           Called(op) /\ InterpreterCalled
               => Preconditions(code, input_values(gather(m_iteration)), m_delays.size)]_vars

\* A run operation called the interpreter of a program with delays after clear_state had
\* emptied the delay registers, and the assertion ended the call
C31_CalledAfterClearState ==
    /\ Compiled /\ Len(code.delays) > 0 /\ m_delays.size = 0
    /\ outcome.op \in RunOperations
    /\ outcome.kind = "aborted" /\ outcome.error = "assert_abort"

\* The delay registers as the failed iteration of this step found them: as the last
\* iteration the call completed left them, or as they were when the call began
RegistersBeforeFailure ==
    IF Len(log') > Len(log) THEN log'[Len(log')].delays_after ELSE m_delays.data

\* C32: an iteration that fails at runtime (a complex value quantized or ordered, a failing
\* callable or input provider) leaves every delay register holding the value it had before
\* that iteration started.
C32_FailedIterationKeepsTheDelays ==
    [][IterationFailed => m_delays'.data = RegistersBeforeFailure]_vars

\* An iteration of a program with two delays failed in the input of the second delay
C32_FailedBehindAnUpdate ==
    /\ Compiled /\ Len(code.delays) = 2
    /\ outcome.kind = "raised" /\ outcome.at # None
    /\ outcome.error \in {"ComplexOrder", "ComplexQuantize"}
    /\ \E k, l \in Positions :
           /\ k < l
           /\ code.instructions[k].type = "update_delay" /\ code.instructions[l].type = "min"

\* The nodes compiled as custom operations, and the values of the signals connected to the
\* inputs of node n in an iteration, in the order of the inputs
CustomNodes == {code.custom_operations[c].evaluate_output : c \in 1 .. Len(code.custom_operations)}
InputSignals(n, entry) == [j \in 1 .. Len(Graph[n].inputs) |-> ValueAt(Graph[n].inputs[j].source, entry)]

\* C33: for a custom operation with at least two inputs, element i of the list handed to
\* its callable is the value of the signal connected to input i of the node: each output
\* is what the callable returns for the input values in graph input order.
C33_InputsInGraphOrder ==
    Compiled =>
        \A e \in Entries : \A n \in CustomNodes : \A i \in 0 .. Graph[n].output_count - 1 :
            (log[e].bits_override = None /\ Len(Graph[n].inputs) >= 2) =>
                Recorded(log[e], n, i) = evaluate_output(n, i, InputSignals(n, log[e]))

\* An iteration ran a custom operation whose two inputs carried different values
C33_TwoDifferentInputs ==
    /\ Compiled /\ Len(log) >= 1 /\ log[1].bits_override = None
    /\ \E n \in CustomNodes :
           /\ Len(Graph[n].inputs) = 2
           /\ InputSignals(n, log[1])[1] # InputSignals(n, log[1])[2]
           /\ KeyIndex(KeyOf(n, 0)) # 0

\* The push_result instructions that read a slot which is not the slot of a delay, and for
\* such a read at position k the positions before it that write its slot
DelaySlots == {code.delays[d].result_index : d \in 1 .. Len(code.delays)}
ResultReads ==
    {k \in Positions : /\ code.instructions[k].type = "push_result"
                       /\ code.instructions[k].index \notin DelaySlots}
WritesBefore(k) ==
    {j \in 1 .. k - 1 : /\ code.instructions[j].result_index = code.instructions[k].index
                        /\ code.instructions[j].type # "push_result"}
LastWriteBefore(k) == CHOOSE j \in WritesBefore(k) : \A i \in WritesBefore(k) : i <= j

\* C34: in every compiled program each push_result of a slot that is not a delay's comes
\* later in the instruction stream than the instruction that computes the slot, so within
\* an iteration it reads what that instruction wrote in this iteration.
C34_ResultsAreReadAfterTheyAreWritten ==
    Compiled =>
        \A k \in ResultReads :
            /\ WritesBefore(k) # {}
            /\ \A e \in Entries : log[e].trace[k].top = log[e].trace[LastWriteBefore(k)].top

\* A program that reads a non-delay slot a second time ran two iterations in which the
\* slot held different values
C34_SlotReadAgain ==
    /\ Compiled /\ Len(log) >= 2
    /\ \E k \in ResultReads : log[1].trace[k].top # log[2].trace[k].top

\* C35: for every compiled program the interpreter's stack is non-empty after every
\* executed instruction, after each update_delay included and with or without
\* bits_override (the outputs lie below what an update_delay pops), so storing the top of
\* the stack as the instruction's result never underflows.
C35_StackNeverEmpty ==
    Compiled =>
        /\ outcome.error # "stack_underflow"
        /\ \A e \in Entries : \A k \in Positions :
               /\ log[e].trace[k].depth >= 1
               /\ code.instructions[k].type = "update_delay"
                      => log[e].trace[k].depth >= code.output_count /\ code.output_count >= 1

\* Iterations with and without bits_override completed on a program with an update_delay
C35_UpdatedWithAndWithoutOverride ==
    /\ Compiled /\ Len(log) >= 2
    /\ \E k \in Positions : code.instructions[k].type = "update_delay"
    /\ log[1].bits_override = None /\ log[2].quantize /\ log[2].bits_override # None

----------------------------------------------------------------------------
\* The index operands of the program in code, each against the table it addresses
InstructionsOfType(type) == {i \in 1 .. Len(code.instructions) : code.instructions[i].type = type}
OperandInRange(i) ==
    LET instruction == code.instructions[i] IN
    CASE instruction.type = "push_input" -> instruction.index < code.input_count
      [] instruction.type = "push_result" -> instruction.index < Len(code.result_keys)
      [] instruction.type \in {"push_delay", "update_delay"} -> instruction.index < Len(code.delays)
      [] instruction.type = "custom" ->
            /\ instruction.index < Len(code.custom_sources)
            /\ code.custom_sources[instruction.index + 1].custom_operation_index < Len(code.custom_operations)
      [] OTHER -> TRUE

\* C36: in every compiled program all index operands are in range for the table they
\* address: PushInput(i) has i < input_count, PushResult(i) has i < |result_keys|,
\* PushDelay(i) and UpdateDelay(i) have i < |delays|, Custom(i) has i < |custom_sources| with
\* custom_sources[i].custom_operation_index < |custom_operations|, and the result_index of
\* every delay entry is < |result_keys|.
C36_IndexOperandsInRange ==
    Compiled =>
        /\ \A i \in 1 .. Len(code.instructions) : OperandInRange(i)
        /\ \A d \in 1 .. Len(code.delays) : code.delays[d].result_index < Len(code.result_keys)

\* A program was compiled in which an Input of a nested SFG was reached from a delay of the
\* deferred queue that was read after the queue had been reallocated: it holds a PushInput
C36_InputBehindRelocatedQueue ==
    /\ Compiled
    /\ sfg.name = "relocated"
    /\ InstructionsOfType("push_input") # {}
    /\ InstructionsOfType("update_delay") # {}

----------------------------------------------------------------------------
\* The quantize instructions of the program, each behind the instruction that leaves the
\* value of the producing output on the stack
Quantizes == {q \in InstructionsOfType("quantize") : q > 1}
ProducerSlot(q) == code.instructions[q - 1].result_index
ConsumersOf(slot) ==
    {k \in InstructionsOfType("push_result") : code.instructions[k].index = slot}

\* C37: per-edge quantization is local to its edge: a quantize emitted for the signal of
\* one consumer changes neither the value stored in the result slot of the producing output
\* nor the value any other consumer of that output receives through push_result.
C37_QuantizationIsLocalToItsEdge ==
    Compiled =>
        \A q \in Quantizes : \A e \in Entries :
            /\ ProducerSlot(q) < Len(code.result_keys)
            /\ log[e].results[ProducerSlot(q) + 1] = log[e].trace[q - 1].top
            /\ \A k \in ConsumersOf(ProducerSlot(q)) : log[e].trace[k].top = log[e].trace[q - 1].top

\* An iteration ran with quantization in which a quantize changed the value of an output
\* that a later push_result hands to another consumer
C37_QuantizedBesideAnotherConsumer ==
    /\ Compiled
    /\ \E q \in Quantizes : \E e \in Entries :
           /\ log[e].quantize
           /\ log[e].trace[q].top # log[e].trace[q - 1].top
           /\ \E k \in ConsumersOf(ProducerSlot(q)) : k > q

----------------------------------------------------------------------------
\* The py::value_error exceptions compiler::compile throws
CompileTimeErrors ==
    {"StrayInput", "IoCountMismatch", "DirectFeedbackLoop", "TooManyResults", "QuantizationTooWide"}

\* Delays whose input is the output of another delay: the deferred-delay phase discovers
\* their source while it runs over the queue
DelaysBehindDelays ==
    {n \in NodeNames : /\ Graph[n].type_name = "t"
                       /\ Graph[Graph[n].inputs[1].source.operation].type_name = "t"}

\* C38: compilation ends for every finite source graph, and it ends by returning a compiled
\* program or by failing with one of the compile-time errors; graphs with feedback through
\* delays, nested SFGs and delays discovered during the deferred-delay phase included.
C38_CompilationEndsInCodeOrError ==
    code.status # "none" => code.status \in {"ok"} \cup CompileTimeErrors

\* The compilation of a graph with a delay behind a delay ended in neither: the read of
\* the reallocated queue faulted
C38_EndedInTheDeferredPhase ==
    /\ DelaysBehindDelays # {}
    /\ code.status = "crash"
    /\ outcome = Aborted("construct", "fault")

----------------------------------------------------------------------------
\* Every edge of the graph that has a width has the largest one
OnlyFullEdges ==
    \A n \in NodeNames : \A i \in 1 .. Len(Graph[n].inputs) : Graph[n].inputs[i].bits \in {None, Some(FullBits)}
FullOverride(entry) == entry.quantize /\ entry.bits_override = Some(FullBits)
\* The iteration of a log entry run again without any quantization
Plain(entry, order) ==
    run_simulation(code, entry.inputs, entry.delays_before, Len(code.delays), None, FALSE, order,
                   "stale_storage", "count_mod_64")
\* Every value that iteration has on top of the stack is a real integer
Integral(state) ==
    \A k \in 1 .. Len(state.fr.trace) : state.fr.trace[k].top.im = 0 /\ state.fr.trace[k].top.den = 1

\* C39: for the largest permitted width, bits = 64, per edge or as bits_override, the mask
\* (1 << 64) - 1 has all 64 bits set, so quantization leaves every real value that is an
\* exactly representable 64-bit integer unchanged: a quantize of a 64-bit edge leaves the top
\* of the stack as it was, and an iteration under an override of 64 bits gives the results,
\* outputs and delays of the iteration without quantization when all its values are real
\* integers.
C39_FullWidthChangesNothing ==
    Compiled =>
        \A e \in Entries :
            /\ (PerEdge(log[e]) /\ OnlyFullEdges) =>
                   \A q \in Quantizes : /\ code.instructions[q].bit_mask = -1
                                        /\ log[e].trace[q].top = log[e].trace[q - 1].top
            /\ FullOverride(log[e]) =>
                   /\ log[e].bit_mask_override = -1
                   /\ \E order \in Orders(code) :
                          Integral(Plain(log[e], order)) =>
                              /\ Plain(log[e], order).results = log[e].results
                              /\ Plain(log[e], order).stack = log[e].stack
                              /\ Plain(log[e], order).delays = log[e].delays_after

\* 5 + 4 ran under an override of 64 bits and gave 0, and 5 crossed an edge of 64 bits and
\* arrived as 0: the mask of either was 0
C39_FullWidthGaveZero ==
    /\ Compiled /\ Len(log) >= 1
    /\ \/ sfg.name = "const" /\ FullOverride(log[1]) /\ log[1].bit_mask_override = 0
                             /\ log[1].stack = <<Num(0)>>
       \/ sfg.name = "full" /\ PerEdge(log[1]) /\ log[1].stack = <<Num(0)>>
                            /\ \E q \in Quantizes : code.instructions[q].bit_mask = 0

----------------------------------------------------------------------------
\* The Input operations of the nested SFGs, the nested SFG that holds one, and the output
\* that is connected to the input of the SFG node the Input stands for
NestedInputs == {n \in NodeNames : Graph[n].type_name = "in" /\ PathOf(n) # <<>>}
Enclosing(n) == CHOOSE s \in NodesOfType("sfg") \ {"sfg"} : n \in Members(s)
OuterSource(n) ==
    Graph[Enclosing(n)].inputs[CHOOSE k \in 1 .. Len(Graph[Enclosing(n)].input_operations) :
                                   Graph[Enclosing(n)].input_operations[k] = n].source
\* The instructions that compute result slot r (counted from 1, as KeyIndex counts)
Computing(r) ==
    {k \in Positions : /\ code.instructions[k].result_index = r - 1
                       /\ code.instructions[k].type # "push_result"}

\* C40: when an Input operation of an SFG nested at depth >= 2 is compiled, the compiler
\* goes on in the parent context: it compiles the source connected to the corresponding
\* input of the SFG node with the parent's key prefix and the parent's SFG stack, so that
\* source is keyed with the path of the graph it lies in, and the slot of the inner Input
\* is computed by a forward_value and holds the value of that source.
C40_NestedInputForwardsOuterSource ==
    Compiled =>
        \A n \in NestedInputs :
            KeyIndex(ExpectedKey(n, 0)) # 0 =>
                /\ KeyIndex(ExpectedKey(OuterSource(n).operation, OuterSource(n).index)) # 0
                /\ \A k \in Computing(KeyIndex(ExpectedKey(n, 0))) :
                       code.instructions[k].type = "forward_value"
                /\ \A e \in Entries :
                       log[e].results[KeyIndex(ExpectedKey(n, 0))] =
                           log[e].results[KeyIndex(ExpectedKey(OuterSource(n).operation, OuterSource(n).index))]

\* The Input of a nested SFG was compiled to a push_input, in a program without inputs
C40_NestedInputPushed ==
    /\ Compiled /\ code.input_count = 0
    /\ \E n \in NestedInputs :
           /\ KeyIndex(ExpectedKey(n, 0)) # 0
           /\ \E k \in Computing(KeyIndex(ExpectedKey(n, 0))) : code.instructions[k].type = "push_input"

====
